---- MODULE Spec2Model ----
(***************************************************************************)
(* A model of the request execution core of zapmail-mcp (src/src/index.js): *)
(* the Cache, the RateLimiter, apiFetch with its retry loop, the composite   *)
(* purchase flow and the JSON-RPC loop that starts the tool handlers.        *)
(*                                                                           *)
(* JavaScript runs one callback to completion before the next: every action *)
(* below is the code between two suspension points (await) of one async      *)
(* function; the interleavings of the actions are the interleavings of the   *)
(* event loop.                                                               *)
(***************************************************************************)
EXTENDS Integers, Sequences, FiniteSets, TLC

VARIABLES
    now,        \* Date.now(), in milliseconds
    cacheCfg,   \* Cache: this.maxSize, this.ttl
    cache,      \* Cache: this.cache, a Map, kept in insertion order
    cacheObs,   \* observation of the Cache operations of the cache harness
    limiter,    \* RateLimiter: this.maxRequests, this.windowMs
    requests,   \* RateLimiter: this.requests.get("api")
    released,   \* the instants at which callers left checkLimit, latest window
    apiKey,     \* env.ZAPMAIL_API_KEY after getApiKey(), or Null
    CONFIG,     \* CONFIG.maxRetries, CONFIG.enableCaching
    FEATURE_FLAGS, \* FEATURE_FLAGS.llmPlanner
    CONTEXT,    \* CONTEXT.workspaceKey, CONTEXT.serviceProvider
    call,       \* per caller: the frame of its apiFetch call
    obs,        \* per caller: what its current apiFetch call did so far
    callLog,    \* the last two finished apiFetch calls, older first
    metrics,    \* Metrics: this.counters, the counters apiFetch increments
    task,       \* per caller: the frame of the tool handler or harness
    upstream,   \* the upstream REST API: wallet balance and fault budget
    inbox,      \* JSON-RPC requests not yet delivered on stdin
    replies     \* the JSON-RPC replies written so far

cacheVars == <<cacheCfg, cache>>
rateVars == <<limiter, requests, released>>
envVars == <<apiKey, CONFIG, FEATURE_FLAGS>>
fetchVars == <<call, obs, callLog, metrics>>
serverVars == <<task, upstream, inbox, replies>>
vars == <<now, cacheCfg, cache, cacheObs, limiter, requests, released, apiKey,
          CONFIG, FEATURE_FLAGS, CONTEXT, call, obs, callLog, metrics, task, upstream, inbox,
          replies>>

-----------------------------------------------------------------------------
(* JavaScript values.  null and undefined are Null; a JSON value is a tagged *)
(* record.                                                                   *)

Null == [t |-> "null"]
JNum(n) == [t |-> "num", n |-> n]
JBool(b) == [t |-> "bool", b |-> b]
JStr(s) == [t |-> "str", s |-> s]
JObj(o) == [t |-> "obj", o |-> o]

\* ToBoolean: what `if (x)` and `!x` test
Truthy(v) ==
    CASE v.t = "null" -> FALSE
      [] v.t = "num" -> v.n # 0
      [] v.t = "bool" -> v.b
      [] v.t = "str" -> v.s # ""
      [] OTHER -> TRUE

Min(a, b) == IF a <= b THEN a ELSE b

RECURSIVE SeqMin(_)
SeqMin(s) == IF Len(s) = 1 THEN s[1] ELSE Min(s[1], SeqMin(Tail(s)))

-----------------------------------------------------------------------------
(* Cache (index.js 296-335).  The Map is a sequence of entries in insertion *)
(* order: Map.set on a present key keeps its place, on an absent key appends. *)

MapHas(m, k) == \E i \in 1..Len(m) : m[i].key = k

MapIndex(m, k) == CHOOSE i \in 1..Len(m) : m[i].key = k

MapDelete(m, k) == SelectSeq(m, LAMBDA e : e.key # k)

MapSet(m, k, item) ==
    IF MapHas(m, k)
    THEN [m EXCEPT ![MapIndex(m, k)] = [key |-> k, item |-> item]]
    ELSE Append(m, [key |-> k, item |-> item])

\* set(key, value, ttl), its first statement: at capacity, the first key of
\* the Map is deleted
CacheEvictNever(cfg, m) == m

CacheEvictLast(cfg, m) ==
    IF Len(m) >= cfg.maxSize /\ Len(m) > 0 THEN MapDelete(m, m[Len(m)].key) ELSE m

CacheEvict(cfg, m) ==
    IF Len(m) >= cfg.maxSize /\ Len(m) > 0 THEN MapDelete(m, m[1].key) ELSE m

\* set(key, value, ttl): the Map after the call
CacheSet(cfg, m, k, value, ttl, t) ==
    MapSet(CacheEvict(cfg, m), k, [value |-> value, expires |-> t + ttl])

\* the keys of the Map
MapKeys(m) == {m[i].key : i \in 1..Len(m)}

\* get(key): the value returned
CacheGetNoExpiry(m, k, t) ==
    IF ~MapHas(m, k) THEN Null ELSE m[MapIndex(m, k)].item.value

CacheGet(m, k, t) ==
    IF ~MapHas(m, k) THEN Null
    ELSE IF t > m[MapIndex(m, k)].item.expires THEN Null
    ELSE m[MapIndex(m, k)].item.value

\* get(key): the Map after the call
CacheAfterGet(m, k, t) ==
    IF MapHas(m, k) /\ t > m[MapIndex(m, k)].item.expires
    THEN MapDelete(m, k)
    ELSE m

CacheClear(m) == << >>

CacheSize(m) == Len(m)

DefaultMaxSize == 1000
DefaultTtl == 300000

-----------------------------------------------------------------------------
(* The callers.  A caller is one activation of an async function: a tool    *)
(* handler started by the JSON-RPC loop, or a harness driving one component. *)

NumCallers == 2
Procs == 1..NumCallers

DefaultMaxRequests == 10
DefaultWindowMs == 60000
DefaultMaxRetries == 3

\* call[p].pc: "none", "rateWait" (asleep in checkLimit), "rateDone"
\* (checkLimit returned, apiFetch not yet resumed), "fetch" (awaiting the
\* response), "backoff" (asleep between attempts), "returned", "threw"
IdleCall == [pc |-> "none", args |-> Null, rl |-> Null, attempt |-> 0,
             maxRetries |-> 0, t0 |-> 0, wake |-> 0, req |-> Null, out |-> Null]
\* obs[p]: the fetches made, the sleeps taken in the retry loop, the answers
\* with a retryable status (429, 5xx), the other failed attempts (another
\* status that is not ok, an exception), the times the call ended, and
\* how the last attempt was answered (the status, Thrown for an exception,
\* Unanswered before any), and the Map of the cache as the call began
Unanswered == -1
Thrown == 0
NoObs == [attempts |-> 0, sleeps |-> << >>, retryable |-> 0, failures |-> 0,
          returns |-> 0, answer |-> Unanswered, before |-> << >>]
\* metrics.counters before any increment (a counter not yet set counts 0)
NoMetrics == [cache_hits |-> 0, api_requests_success |-> 0, api_requests_failed |-> 0]
\* metrics.increment(counter), as often as the call runs it
Increment(counters, counter, times) == [counters EXCEPT ![counter] = @ + times]

\* task[p].calls: the calls a harness caller may still make; for a tool
\* handler, req is the JSON-RPC request, loc the locals of the composite
\* operation it runs, overlap whether it started while another handler had
\* not yet replied
IdleTask == [pc |-> "idle", calls |-> 0, req |-> Null, loc |-> Null, overlap |-> FALSE]

\* The state of the components a specification does not exercise: the
\* values the module-level constructors give them.
InitCacheDefault ==
    /\ cacheCfg = [maxSize |-> DefaultMaxSize, ttl |-> DefaultTtl]
    /\ cache = << >>
InitCacheObsNone ==
    cacheObs = [last |-> [op |-> "none"], stored |-> [k \in {} |-> Null]]
InitRateDefault ==
    /\ limiter = [maxRequests |-> DefaultMaxRequests, windowMs |-> DefaultWindowMs]
    /\ requests = << >>
    /\ released = << >>
InitEnvDefault ==
    /\ apiKey = JStr("key")
    /\ CONFIG = [maxRetries |-> DefaultMaxRetries, enableCaching |-> TRUE]
    /\ FEATURE_FLAGS = [llmPlanner |-> FALSE]
InitContextDefault ==
    CONTEXT = [workspaceKey |-> Null, serviceProvider |-> JStr("GOOGLE")]
InitFetchIdle ==
    /\ call = [p \in Procs |-> IdleCall]
    /\ obs = [p \in Procs |-> NoObs]
    /\ callLog = << >>
    /\ metrics = NoMetrics
InitServerIdle ==
    /\ task = [p \in Procs |-> IdleTask]
    /\ upstream = [balance |-> 0, faults |-> 0, populated |-> {}]
    /\ inbox = 0
    /\ replies = << >>

-----------------------------------------------------------------------------
(* The cache harness: set, get and clear called directly on one Cache, as a *)
(* unit test does, with the clock advancing between calls.                   *)

CacheHarnessMaxSize == 2
CacheHarnessMaxNow == 3
CacheHarnessTtl == 2
CacheKeys == {"a", "b", "c"}
CacheValues == {JNum(0), JObj([x |-> JNum(1)])}
\* the ttl argument of set: omitted (this.ttl applies) or given
CacheTtls == {Null, JNum(0)}

\* cacheObs.stored: per key, the value and expiry of the latest set, kept by
\* the harness and not read from the Map; cacheObs.last: the latest call, for
\* a get also the key first in line for eviction before and after it.
FirstKey(m) == IF m = << >> THEN Null ELSE JStr(m[1].key)

HarnessSet(k, v, ttlArg) ==
    LET ttl == IF ttlArg = Null THEN cacheCfg.ttl ELSE ttlArg.n
    IN /\ cache' = CacheSet(cacheCfg, cache, k, v, ttl, now)
       /\ cacheObs' = [last |-> [op |-> "set", key |-> k],
                        stored |-> [cacheObs.stored EXCEPT
                                      ![k] = [value |-> v, expires |-> now + ttl]]]
       /\ UNCHANGED <<now, cacheCfg, rateVars, envVars, CONTEXT, fetchVars, serverVars>>

HarnessGet(k) ==
    /\ cache' = CacheAfterGet(cache, k, now)
    /\ cacheObs' = [cacheObs EXCEPT
                      !.last = [op |-> "get", key |-> k, at |-> now,
                                value |-> CacheGet(cache, k, now),
                                afterSet |-> cacheObs.last.op = "set"
                                             /\ cacheObs.last.key = k,
                                first |-> <<FirstKey(cache), FirstKey(cache')>>]]
    /\ UNCHANGED <<now, cacheCfg, rateVars, envVars, CONTEXT, fetchVars, serverVars>>

HarnessClear ==
    /\ cache # << >>
    /\ cache' = CacheClear(cache)
    /\ cacheObs' = [cacheObs EXCEPT !.last = [op |-> "clear"]]
    /\ UNCHANGED <<now, cacheCfg, rateVars, envVars, CONTEXT, fetchVars, serverVars>>

HarnessTick ==
    /\ now < CacheHarnessMaxNow
    /\ now' = now + 1
    /\ UNCHANGED <<cacheVars, cacheObs, rateVars, envVars, CONTEXT, fetchVars, serverVars>>

InitCache ==
    /\ now = 0
    /\ cacheCfg = [maxSize |-> CacheHarnessMaxSize, ttl |-> CacheHarnessTtl]
    /\ cache = << >>
    /\ cacheObs = [last |-> [op |-> "none"], stored |-> [k \in CacheKeys |-> Null]]
    /\ InitRateDefault /\ InitEnvDefault /\ InitContextDefault
    /\ InitFetchIdle /\ InitServerIdle

NextCache ==
    \/ \E k \in CacheKeys, v \in CacheValues, ttl \in CacheTtls : HarnessSet(k, v, ttl)
    \/ \E k \in CacheKeys : HarnessGet(k)
    \/ HarnessClear
    \/ HarnessTick

SpecCache == InitCache /\ [][NextCache]_vars

\* C10: a get that directly follows set(k, v, ttl), no later than the
\* entry's expiry, returns v; a get after the expiry of the latest set of
\* its key returns null and leaves the key out of the Map; so whatever a get
\* returns is the unexpired value of the latest set of its key.
C10_SetGetExpiry ==
    LET g == cacheObs.last
        s == cacheObs.stored[g.key]
    IN g.op = "get" =>
         /\ (g.afterSet /\ g.at <= s.expires) => g.value = s.value
         /\ (s # Null /\ g.at > s.expires) =>
                (g.value = Null /\ ~MapHas(cache, g.key))
         /\ g.value # Null => (s # Null /\ g.value = s.value /\ g.at <= s.expires)

\* C10 witnesses: a value read back before its expiry, and an expired entry
\* found by get and removed.
C10_Witness ==
    LET g == cacheObs.last
        s == cacheObs.stored[g.key]
    IN /\ g.op = "get" /\ s # Null /\ g.at > s.expires
       /\ g.value = Null
       /\ \E k \in CacheKeys : MapHas(cache, k) /\ cacheObs.stored[k].expires >= now

-----------------------------------------------------------------------------
(* The eviction harness: set(key, value) with the default ttl, get and clear *)
(* on one Cache.  cacheObs.stored keeps, per key, the time the key was       *)
(* inserted, that is set while the Map did not hold it; cacheObs.last tells   *)
(* of a set whether it inserted at capacity and which keys it removed.       *)

EvictMaxSize == 2
EvictTtl == 2

HarnessInsert(k, v) ==
    LET held == MapHas(CacheEvict(cacheCfg, cache), k)
    IN /\ cache' = CacheSet(cacheCfg, cache, k, v, cacheCfg.ttl, now)
       /\ cacheObs' = [last |-> [op |-> "set", key |-> k,
                                  present |-> MapHas(cache, k),
                                  full |-> Len(cache) = cacheCfg.maxSize,
                                  evicted |-> MapKeys(cache) \ MapKeys(cache')],
                        stored |-> [cacheObs.stored EXCEPT
                                      ![k] = IF held THEN @ ELSE [ins |-> now]]]
       /\ UNCHANGED <<now, cacheCfg, rateVars, envVars, CONTEXT, fetchVars, serverVars>>

InitEvict ==
    /\ now = 0
    /\ cacheCfg = [maxSize |-> EvictMaxSize, ttl |-> EvictTtl]
    /\ cache = << >>
    /\ cacheObs = [last |-> [op |-> "none"], stored |-> [k \in CacheKeys |-> Null]]
    /\ InitRateDefault /\ InitEnvDefault /\ InitContextDefault
    /\ InitFetchIdle /\ InitServerIdle

NextEvict ==
    \/ \E k \in CacheKeys, v \in CacheValues : HarnessInsert(k, v)
    \/ \E k \in CacheKeys : HarnessGet(k)
    \/ HarnessClear
    \/ HarnessTick

SpecEvict == InitEvict /\ [][NextEvict]_vars

C31_SizeWithinMaxSize ==
    cacheCfg.maxSize >= 1
       => /\ CacheSize(cache) <= cacheCfg.maxSize
          /\ cacheObs.last.op = "clear" => CacheSize(cache) = 0

\* a set of an absent key on a full cache, which is full after it
C31_Witness ==
    LET l == cacheObs.last
    IN /\ l.op = "set" /\ l.full /\ ~l.present
       /\ CacheSize(cache) = cacheCfg.maxSize
       /\ cacheCfg.maxSize >= 1

\* C32: a set on a key the cache holds replaces the value and the expiry of
\* that key and removes no other key, also when the cache holds maxSize
\* entries.
C32_OverwriteRemovesNothing ==
    LET l == cacheObs.last
    IN (l.op = "set" /\ l.present) => (l.evicted = {} /\ MapHas(cache, l.key))

-----------------------------------------------------------------------------
(* RateLimiter (index.js 343-373), one window, key "api".                   *)

\* requests.filter((time) => time > windowStart)
RecentRequests(reqs, t, windowMs) == SelectSeq(reqs, LAMBDA time : time > t - windowMs)

\* this.windowMs - (now - oldestRequest)
WaitTimeFromNewest(recent, t, windowMs) == windowMs + (t - SeqMin(recent))
WaitTime(recent, t, windowMs) == windowMs - (t - SeqMin(recent))

MustWaitOver(recent, maxRequests) == Len(recent) > maxRequests
MustWait(recent, maxRequests) == Len(recent) >= maxRequests

\* released keeps the release instants of the trailing window of the latest
Released(rel, t, windowMs) == Append(SelectSeq(rel, LAMBDA r : r > t - windowMs), t)

\* checkLimit up to its await sleep(waitTime), or to its end when the window
\* has room; c is the caller's frame
CheckLimitStart(p, c) ==
    LET recentRequests == RecentRequests(requests, now, limiter.windowMs)
    IN IF MustWait(recentRequests, limiter.maxRequests)
       THEN /\ call' = [call EXCEPT ![p] =
                  [c EXCEPT !.pc = "rateWait",
                            !.rl = [now |-> now, recentRequests |-> recentRequests],
                            !.wake = now + WaitTime(recentRequests, now,
                                                    limiter.windowMs)]]
            /\ UNCHANGED <<requests, released>>
       ELSE /\ requests' = Append(recentRequests, now)
            /\ released' = Released(released, now, limiter.windowMs)
            /\ call' = [call EXCEPT ![p] = [c EXCEPT !.pc = "rateDone"]]

\* checkLimit after its sleep: recentRequests.push(now); this.requests.set(key,
\* recentRequests), with the now and the recentRequests of before the sleep
CheckLimitWake(p) ==
    /\ call[p].pc = "rateWait"
    /\ now >= call[p].wake
    /\ requests' = Append(call[p].rl.recentRequests, call[p].rl.now)
    /\ released' = Released(released, now, limiter.windowMs)
    /\ call' = [call EXCEPT ![p].pc = "rateDone", ![p].rl = Null, ![p].wake = 0]
    /\ UNCHANGED <<now, limiter, cacheVars, cacheObs, envVars, CONTEXT, obs, callLog, metrics,
                   serverVars>>

-----------------------------------------------------------------------------
(* The rate harness: callers that call checkLimit("api") directly, some of  *)
(* them while others are asleep in it.                                       *)

RateHarnessMaxRequests == 2
RateHarnessWindowMs == 3
RateHarnessMaxNow == 5
RateHarnessMaxCalls == 3

RateCall(p) ==
    /\ call[p].pc = "none"
    /\ task[p].calls > 0
    /\ task' = [task EXCEPT ![p].calls = @ - 1]
    /\ CheckLimitStart(p, IdleCall)
    /\ UNCHANGED <<now, limiter, cacheVars, cacheObs, envVars, CONTEXT, obs, callLog, metrics,
                   upstream, inbox, replies>>

RateReturn(p) ==
    /\ call[p].pc = "rateDone"
    /\ call' = [call EXCEPT ![p] = IdleCall]
    /\ UNCHANGED <<now, rateVars, cacheVars, cacheObs, envVars, CONTEXT, obs, callLog, metrics,
                   serverVars>>

RateTick ==
    /\ now < RateHarnessMaxNow
    /\ now' = now + 1
    /\ UNCHANGED <<rateVars, cacheVars, cacheObs, envVars, CONTEXT, fetchVars, serverVars>>

InitRate ==
    /\ now = 0
    /\ limiter = [maxRequests |-> RateHarnessMaxRequests,
                  windowMs |-> RateHarnessWindowMs]
    /\ requests = << >>
    /\ released = << >>
    /\ InitCacheDefault /\ InitCacheObsNone /\ InitEnvDefault /\ InitContextDefault
    /\ InitFetchIdle
    /\ task = [p \in Procs |-> [IdleTask EXCEPT !.calls = RateHarnessMaxCalls]]
    /\ upstream = [balance |-> 0, faults |-> 0, populated |-> {}]
    /\ inbox = 0
    /\ replies = << >>

NextRate ==
    \/ \E p \in Procs : RateCall(p)
    \/ \E p \in Procs : CheckLimitWake(p)
    \/ \E p \in Procs : RateReturn(p)
    \/ RateTick

SpecRate == InitRate /\ [][NextRate]_vars

\* the callers released in the trailing window (t - windowMs, t]
ReleasedInWindow(t) ==
    Cardinality({i \in 1..Len(released) :
                   released[i] > t - limiter.windowMs /\ released[i] <= t})

\* C1: at most maxRequests callers are released from checkLimit within any
\* trailing window of windowMs milliseconds.
C1_AtMostMaxPerWindow ==
    \A i \in 1..Len(released) : ReleasedInWindow(released[i]) <= limiter.maxRequests

\* the recorded timestamps newer than t - windowMs
InWindow(t) == {i \in DOMAIN requests : requests[i] > t - limiter.windowMs}
Oldest(S) == CHOOSE i \in S : \A j \in S : requests[i] <= requests[j]

\* C22: a checkLimit call made at time now, when maxRequests or more of the
\* recorded timestamps are newer than now - windowMs, suspends its caller
\* for windowMs - (now - oldest timestamp in the window) and proceeds no
\* earlier; with fewer it does not suspend the caller.
C22_WaitsForOldestToLeave ==
    [][\A p \in Procs :
         /\ (call[p].pc = "none" /\ call'[p].pc # "none")
               => IF Cardinality(InWindow(now)) >= limiter.maxRequests
                  THEN /\ call'[p].pc = "rateWait"
                       /\ call'[p].wake - now =
                             limiter.windowMs - (now - requests[Oldest(InWindow(now))])
                       /\ call'[p].wake > now
                  ELSE call'[p].pc = "rateDone"
         /\ (call[p].pc = "rateWait" /\ call'[p].pc # "rateWait")
               => now >= call[p].wake]_vars

\* a caller is suspended for less than the whole window, the oldest
\* timestamp of the window being older than its call
C22_Witness ==
    \E p \in Procs :
        /\ call[p].pc = "rateWait"
        /\ call[p].wake - call[p].rl.now < limiter.windowMs
        /\ call[p].wake - call[p].rl.now > 0

\* The rate harness with the timers of the event loop: time does not stop
\* while a caller sleeps, and a sleep that is over ends.
RateTickLive ==
    /\ \/ now < RateHarnessMaxNow
       \/ \E p \in Procs : call[p].pc = "rateWait" /\ now < call[p].wake
    /\ now' = now + 1
    /\ UNCHANGED <<rateVars, cacheVars, cacheObs, envVars, CONTEXT, fetchVars, serverVars>>

NextRateLive ==
    \/ \E p \in Procs : RateCall(p)
    \/ \E p \in Procs : CheckLimitWake(p)
    \/ \E p \in Procs : RateReturn(p)
    \/ RateTickLive

SpecRateLive ==
    /\ InitRate
    /\ [][NextRateLive]_vars
    /\ WF_vars(RateTickLive)
    /\ \A p \in Procs : WF_vars(CheckLimitWake(p))

\* C23: checkLimit never rejects.  Every call that is suspended returns
\* normally, after a sleep that is positive and at most windowMs long; a
\* call ends in no other way than by returning.
C23_CheckLimitAlwaysReturns ==
    /\ \A p \in Procs : (call[p].pc = "rateWait") ~> (call[p].pc = "rateDone")
    /\ [](\A p \in Procs :
             /\ call[p].pc \in {"none", "rateWait", "rateDone"}
             /\ call[p].pc = "rateWait"
                   => /\ call[p].wake - call[p].rl.now > 0
                      /\ call[p].wake - call[p].rl.now <= limiter.windowMs)

\* two callers are suspended at once, the window being full
C23_Witness ==
    /\ \A p \in Procs : call[p].pc = "rateWait"
    /\ Len(requests) >= limiter.maxRequests

\* how often the instant t stands in the window reqs
CountOf(reqs, t) == Cardinality({i \in DOMAIN reqs : reqs[i] = t})

\* C33: no recorded timestamp is lost, also when checkLimit calls overlap:
\* a step takes from the window of the key only timestamps that have left
\* the trailing windowMs, so that once all calls have returned the window
\* holds a timestamp for every call made within it.
C33_NoTimestampLost ==
    [][\A i \in DOMAIN requests :
          requests[i] > now' - limiter.windowMs
             => CountOf(requests', requests[i]) >= CountOf(requests, requests[i])]_vars

-----------------------------------------------------------------------------
(* Errors (index.js 156-178) and input validation (index.js 184-208).       *)

ValidationError(field, value) ==
    [name |-> "ValidationError", code |-> "VALIDATION_ERROR",
     details |-> [field |-> field, value |-> value]]

ApiError(status, response) ==
    [name |-> "ApiError", code |-> "API_ERROR",
     details |-> [status |-> status, response |-> response]]

\* what fetch throws: a TypeError (connection failure) or an AbortError
\* (the timeout aborted the attempt); neither is a ZapmailError
NetworkErrors == {[name |-> "TypeError", code |-> Null, details |-> Null],
                  [name |-> "AbortError", code |-> Null, details |-> Null]}

LongPath == "/v2/aaaa...(1001 characters)"
StrLength(str) == IF str = "" THEN 0 ELSE IF str = LongPath THEN 1001 ELSE 11
MaxStringLength == 1000

\* validateString(value, fieldName): Null when it passes, else the error thrown
ValidateString(value, fieldName) ==
    IF value = Null \/ value = JStr("") THEN ValidationError(fieldName, value)
    ELSE IF value.t # "str" THEN ValidationError(fieldName, value)
    ELSE IF StrLength(value.s) > MaxStringLength THEN ValidationError(fieldName, value)
    ELSE Null

-----------------------------------------------------------------------------
(* Response bodies.  resp.text() is the empty text, the text of a JSON value *)
(* or a text that is not JSON.                                               *)

EmptyText == [k |-> "empty"]
JsonText(v) == [k |-> "json", v |-> v]
JunkText == [k |-> "junk"]

\* json = text ? JSON.parse(text) : null, null when JSON.parse throws
ParseBody(text) == IF text.k = "json" THEN text.v ELSE Null

\* json ?? { raw: text }
ResultOf(json, text) == IF json # Null THEN json ELSE JObj([raw |-> text])

RespOk(status) == status >= 200 /\ status <= 299

-----------------------------------------------------------------------------
(* apiFetch (index.js 2541-2744).                                            *)

\* buildHeaders(overrides), then { ...buildHeaders(headers), ...headers }:
\* the workspace and provider headers of the request.  headers holds the
\* caller's "x-workspace-key" and "x-service-provider", Null when absent.
ContextHeaders(headers, ctx) ==
    [ws |-> IF Truthy(ctx.workspaceKey) THEN ctx.workspaceKey ELSE headers.ws,
     sp |-> IF Truthy(ctx.serviceProvider) THEN ctx.serviceProvider ELSE headers.sp]
MergedHeaders(headers, ctx) ==
    [ws |-> IF headers.ws # Null THEN headers.ws
            ELSE IF Truthy(ctx.workspaceKey) THEN ctx.workspaceKey ELSE Null,
     sp |-> IF headers.sp # Null THEN headers.sp
            ELSE IF Truthy(ctx.serviceProvider) THEN ctx.serviceProvider ELSE Null]

\* JSON.stringify(query || {}): the entries in property order
StringifyQuery(query) == IF query = Null THEN << >> ELSE query.entries

\* `${method}:${path}:${JSON.stringify(query || {})}`
CacheKey(args) == <<args.method.s, args.path.s, StringifyQuery(args.query)>>

\* method === "GET" && cache
CacheableAnyMethod(args) == CONFIG.enableCaching
Cacheable(args) == args.method = JStr("GET") /\ CONFIG.enableCaching

\* if (cached): a hit is a truthy value
IsCacheHitAnyValue(cached) == cached # Null
IsCacheHit(cached) == Truthy(cached)

\* if (!apiKey)
MissingApiKeyNever(key) == FALSE
MissingApiKey(key) == ~Truthy(key)

\* resp.status === 429 || resp.status >= 500
RetryableStatus(status) == status = 429 \/ status >= 500

\* Math.min(2500 * (attempt + 1), 9000)
RetryDelayBase == 2500
RetryDelayCap == 9000
RetryDelayNoCap(attempt) == RetryDelayBase * (attempt + 1)
RetryDelay(attempt) == Min(RetryDelayBase * (attempt + 1), RetryDelayCap)

\* 700 * (attempt + 1)
ErrorDelayBase == 700
ErrorDelayFlat(attempt) == ErrorDelayBase
ErrorDelay(attempt) == ErrorDelayBase * (attempt + 1)

\* attempt < maxRetries, the test that lets a 429 or 5xx be retried
MayRetryOneMore(attempt, maxRetries) == attempt <= maxRetries
MayRetry(attempt, maxRetries) == attempt < maxRetries

\* callLog keeps the last two finished calls
Logged(log, entry) == IF Len(log) < 2 THEN Append(log, entry) ELSE <<log[2], entry>>

\* the end of the call: what the awaiting caller sees, and the log entry;
\* o is what the call did, resp the response or exception that ended it
Finish(p, c, kind, out, hit, o, resp) ==
    /\ call' = [call EXCEPT ![p] = [c EXCEPT !.pc = kind, !.out = out]]
    /\ obs' = [obs EXCEPT ![p] = [o EXCEPT !.returns = @ + 1]]
    /\ callLog' = Logged(callLog,
          [p |-> p, args |-> c.args, kind |-> kind, out |-> out, hit |-> hit,
           ws |-> IF c.req # Null THEN c.req.headers.ws
                  ELSE MergedHeaders(c.args.headers, CONTEXT).ws,
           attempts |-> o.attempts, resp |-> resp, t0 |-> c.t0, t1 |-> now])

\* fetch(url, {method, headers: mergedHeaders, body: payload, signal})
Send(p, c, req) ==
    /\ call' = [call EXCEPT ![p] = [c EXCEPT !.pc = "fetch", !.req = req]]
    /\ obs' = [obs EXCEPT ![p].attempts = @ + 1]
    /\ UNCHANGED <<callLog, metrics>>

\* apiFetch from its entry to its first suspension: validation, then
\* rateLimiter.checkLimit("api")
ApiFetchStart(p, args) ==
    LET c == [IdleCall EXCEPT !.args = args, !.t0 = now,
                              !.maxRetries = CONFIG.maxRetries]
        badPath == ValidateString(args.path, "path")
        badMethod == ValidateString(args.method, "method")
    IN IF badPath # Null \/ badMethod # Null
       THEN /\ Finish(p, c, "threw",
                      IF badPath # Null THEN badPath ELSE badMethod, FALSE,
                      [NoObs EXCEPT !.before = cache], Null)
            /\ metrics' = Increment(metrics, "api_requests_failed", 1)
            /\ UNCHANGED <<requests, released>>
       ELSE /\ CheckLimitStart(p, c)
            /\ obs' = [obs EXCEPT ![p] = [NoObs EXCEPT !.before = cache]]
            /\ UNCHANGED <<callLog, metrics>>

\* apiFetch from the return of checkLimit to the first fetch: the cache
\* lookup, the credential check, the URL, headers and payload
ApiFetchResume(p) ==
    LET c == call[p]
        key == CacheKey(c.args)
        cached == IF Cacheable(c.args) THEN CacheGet(cache, key, now) ELSE Null
    IN /\ c.pc = "rateDone"
       /\ cache' = IF Cacheable(c.args) THEN CacheAfterGet(cache, key, now) ELSE cache
       /\ IF Cacheable(c.args) /\ IsCacheHit(cached)
          THEN /\ Finish(p, c, "returned", cached, TRUE, obs[p], Null)
               /\ metrics' = Increment(metrics, "cache_hits", 1)
          ELSE IF MissingApiKey(apiKey)
          THEN /\ Finish(p, c, "threw", ValidationError("apiKey", Null), FALSE, obs[p],
                         Null)
               /\ metrics' = Increment(metrics, "api_requests_failed", 1)
          ELSE Send(p, c, [method |-> c.args.method, path |-> c.args.path,
                           query |-> c.args.query,
                           headers |-> MergedHeaders(c.args.headers, CONTEXT),
                           hasBody |-> c.args.body # Null /\ c.args.method # JStr("GET"),
                           body |-> IF c.args.method # JStr("GET") THEN c.args.body
                                    ELSE Null])
       /\ UNCHANGED <<now, cacheCfg, cacheObs, rateVars, envVars, CONTEXT, serverVars>>

\* the catch inside the loop: rethrow on the last attempt, else sleep
\* 700 * (attempt + 1) and go round the loop again.  The rethrown error
\* passes the catch of the function body too, and each of the two runs
\* metrics.increment("api_requests_failed").
CatchInLoop(p, c, err, o, resp) ==
    IF c.attempt = c.maxRetries
    THEN /\ Finish(p, c, "threw", err, FALSE, o, resp)
         /\ metrics' = Increment(Increment(metrics, "api_requests_failed", 1),
                                 "api_requests_failed", 1)
    ELSE /\ call' = [call EXCEPT ![p] =
               [c EXCEPT !.pc = "backoff", !.wake = now + ErrorDelay(c.attempt)]]
         /\ obs' = [obs EXCEPT ![p] =
               [o EXCEPT !.sleeps = Append(@, ErrorDelay(c.attempt))]]
         /\ UNCHANGED <<callLog, metrics>>

\* the loop body after await fetch and await resp.text(), for the response
\* resp = [status, text]; the new Map is cache'
OnResponse(p, resp) ==
    LET c == call[p]
        json == ParseBody(resp.text)
        o == IF RetryableStatus(resp.status)
             THEN [obs[p] EXCEPT !.retryable = @ + 1, !.answer = resp.status]
             ELSE IF ~RespOk(resp.status)
             THEN [obs[p] EXCEPT !.failures = @ + 1, !.answer = resp.status]
             ELSE [obs[p] EXCEPT !.answer = resp.status]
        result == ResultOf(json, resp.text)
    IN IF RetryableStatus(resp.status) /\ MayRetry(c.attempt, c.maxRetries)
       THEN /\ call' = [call EXCEPT ![p] =
                  [c EXCEPT !.pc = "backoff", !.wake = now + RetryDelay(c.attempt)]]
            /\ obs' = [obs EXCEPT ![p] =
                  [o EXCEPT !.sleeps = Append(@, RetryDelay(c.attempt))]]
            /\ UNCHANGED <<callLog, metrics, cache>>
       ELSE IF ~RespOk(resp.status)
       THEN /\ CatchInLoop(p, c, ApiError(resp.status, json), o, resp)
            /\ UNCHANGED cache
       ELSE /\ Finish(p, c, "returned", result, FALSE, o, resp)
            /\ metrics' = Increment(metrics, "api_requests_success", 1)
            /\ cache' = IF Cacheable(c.args) /\ RespOk(resp.status)
                         THEN CacheSet(cacheCfg, cache, CacheKey(c.args), result,
                                       cacheCfg.ttl, now)
                         ELSE cache

\* fetch or resp.text() threw err
OnNetworkError(p, err) ==
    /\ CatchInLoop(p, call[p], err,
                   [obs[p] EXCEPT !.failures = @ + 1, !.answer = Thrown], err)
    /\ UNCHANGED cache

\* attempt++
SameAttempt(attempt) == attempt
NextAttempt(attempt) == attempt + 1

\* the end of a sleep in the loop: attempt++, the loop test, the next fetch
ApiFetchWake(p) ==
    LET c == [call[p] EXCEPT !.attempt = NextAttempt(@), !.wake = 0]
    IN /\ call[p].pc = "backoff"
       /\ now >= call[p].wake
       /\ IF c.attempt <= c.maxRetries
          THEN Send(p, c, c.req)
          ELSE Finish(p, c, "returned", Null, FALSE, obs[p], Null) /\ UNCHANGED metrics
       /\ UNCHANGED <<now, cacheVars, cacheObs, rateVars, envVars, CONTEXT, serverVars>>

-----------------------------------------------------------------------------
(* The fetch harness: one caller awaiting apiFetch calls one after another  *)
(* against an upstream that may answer any attempt with any status, any body *)
(* or no answer at all.                                                      *)

FetchMaxCalls == 1
FetchMaxRetries == 4
FetchMaxFaults == 5
FetchMaxNow == 400000

\* getApiKey(): the trimmed key, "" for a blank one, null when unset
ApiKeys == {JStr("key"), JStr(""), Null}

NoHeaders == [ws |-> Null, sp |-> Null]
FetchArgs ==
    {[path |-> JStr("/v2/domains"), method |-> JStr("GET"), query |-> Null,
      headers |-> NoHeaders, body |-> Null],
     [path |-> JStr("/v2/domains/buy"), method |-> JStr("POST"), query |-> Null,
      headers |-> NoHeaders, body |-> JObj([useWallet |-> JBool(TRUE)])],
     [path |-> JStr(""), method |-> JStr("GET"), query |-> Null,
      headers |-> NoHeaders, body |-> Null],
     [path |-> JStr("/v2/domains"), method |-> JNum(7), query |-> Null,
      headers |-> NoHeaders, body |-> Null],
     [path |-> JStr(LongPath), method |-> JStr("GET"), query |-> Null,
      headers |-> NoHeaders, body |-> Null]}

OkTexts == {JsonText(JObj([domains |-> JStr("d")])), JsonText(JNum(0)), EmptyText}
\* a client error and a throttle with a JSON body, a gateway's 503 page
Faults == {[status |-> 404, text |-> JsonText(JObj([message |-> JStr("m")]))],
           [status |-> 429, text |-> JsonText(JObj([message |-> JStr("m")]))],
           [status |-> 503, text |-> JunkText]}

FetchCall(p, args) ==
    /\ call[p].pc = "none"
    /\ task[p].calls > 0
    /\ task' = [task EXCEPT ![p].calls = @ - 1]
    /\ ApiFetchStart(p, args)
    /\ UNCHANGED <<now, limiter, cacheVars, cacheObs, envVars, CONTEXT, upstream, inbox,
                   replies>>

\* the awaiting caller takes the value or the exception
FetchDone(p) ==
    /\ call[p].pc \in {"returned", "threw"}
    /\ call' = [call EXCEPT ![p] = IdleCall]
    /\ UNCHANGED <<now, cacheVars, cacheObs, rateVars, envVars, CONTEXT, obs, callLog, metrics,
                   serverVars>>

UpstreamOk(p, text) ==
    /\ call[p].pc = "fetch"
    /\ OnResponse(p, [status |-> 200, text |-> text])
    /\ UNCHANGED <<now, cacheCfg, cacheObs, rateVars, envVars, CONTEXT, serverVars>>

UpstreamFault(p, resp) ==
    /\ call[p].pc = "fetch"
    /\ upstream.faults > 0
    /\ upstream' = [upstream EXCEPT !.faults = @ - 1]
    /\ OnResponse(p, resp)
    /\ UNCHANGED <<now, cacheCfg, cacheObs, rateVars, envVars, CONTEXT, task, inbox,
                   replies>>

UpstreamSilent(p, err) ==
    /\ call[p].pc = "fetch"
    /\ upstream.faults > 0
    /\ upstream' = [upstream EXCEPT !.faults = @ - 1]
    /\ OnNetworkError(p, err)
    /\ UNCHANGED <<now, cacheCfg, cacheObs, rateVars, envVars, CONTEXT, task, inbox,
                   replies>>

\* the earliest instant a sleeping caller is due
Sleeping == {p \in Procs : call[p].pc \in {"rateWait", "backoff"}}
NextWake == CHOOSE t \in {call[p].wake : p \in Sleeping} :
               \A q \in Sleeping : t <= call[q].wake

\* time passes: to the next timer, or past the cache's ttl while idle
FetchTick ==
    /\ \/ Sleeping # {} /\ now < NextWake /\ now' = NextWake
       \/ Sleeping = {} /\ \A p \in Procs : call[p].pc = "none"
          /\ now + cacheCfg.ttl + 1 <= FetchMaxNow
          /\ now' = now + cacheCfg.ttl + 1
    /\ UNCHANGED <<rateVars, cacheVars, cacheObs, envVars, CONTEXT, fetchVars, serverVars>>

\* one call and its retries, in a server as it starts
InitFetch ==
    /\ now = 0
    /\ InitRateDefault
    /\ apiKey \in ApiKeys
    /\ FEATURE_FLAGS = [llmPlanner |-> FALSE]
    /\ CONFIG \in [maxRetries : 0..FetchMaxRetries, enableCaching : BOOLEAN]
    /\ InitCacheDefault /\ InitCacheObsNone /\ InitContextDefault /\ InitFetchIdle
    /\ task = [p \in Procs |-> [IdleTask EXCEPT !.calls = FetchMaxCalls]]
    /\ upstream = [balance |-> 0, faults |-> FetchMaxFaults, populated |-> {}]
    /\ inbox = 0
    /\ replies = << >>

NextFetch ==
    \/ \E args \in FetchArgs : FetchCall(1, args)
    \/ ApiFetchResume(1)
    \/ \E text \in OkTexts : UpstreamOk(1, text)
    \/ \E resp \in Faults : UpstreamFault(1, resp)
    \/ \E err \in NetworkErrors : UpstreamSilent(1, err)
    \/ ApiFetchWake(1)
    \/ FetchDone(1)
    \/ FetchTick

SpecFetch == InitFetch /\ [][NextFetch]_vars

\* the same, with the scheduling of the event loop: a fetch settles (the
\* abort timer of the attempt sees to it), time passes, a timer that is due
\* fires, and a continuation that is ready runs
UpstreamAnswer(p) ==
    \/ \E text \in OkTexts : UpstreamOk(p, text)
    \/ \E resp \in Faults : UpstreamFault(p, resp)
    \/ \E err \in NetworkErrors : UpstreamSilent(p, err)

\* one call, in a server as it starts
InitFetchLive ==
    /\ now = 0
    /\ InitRateDefault
    /\ apiKey \in ApiKeys
    /\ FEATURE_FLAGS = [llmPlanner |-> FALSE]
    /\ CONFIG \in [maxRetries : 0..FetchMaxRetries, enableCaching : BOOLEAN]
    /\ InitCacheDefault /\ InitCacheObsNone /\ InitContextDefault /\ InitFetchIdle
    /\ task = [p \in Procs |-> [IdleTask EXCEPT !.calls = 1]]
    /\ upstream = [balance |-> 0, faults |-> FetchMaxFaults, populated |-> {}]
    /\ inbox = 0
    /\ replies = << >>

SpecFetchLive ==
    /\ InitFetchLive /\ [][NextFetch]_vars
    /\ WF_vars(ApiFetchResume(1)) /\ WF_vars(UpstreamAnswer(1))
    /\ WF_vars(FetchTick) /\ WF_vars(ApiFetchWake(1))

\* consecutive calls, with a rate window of one request
SeqMaxCalls == 2
SeqMaxRetries == 1
SeqMaxFaults == 1
SeqLimiterMaxRequests == 1

InitSeq ==
    /\ now = 0
    /\ limiter = [maxRequests |-> SeqLimiterMaxRequests, windowMs |-> DefaultWindowMs]
    /\ requests = << >>
    /\ released = << >>
    /\ apiKey \in ApiKeys
    /\ FEATURE_FLAGS = [llmPlanner |-> FALSE]
    /\ CONFIG \in [maxRetries : 0..SeqMaxRetries, enableCaching : BOOLEAN]
    /\ InitCacheDefault /\ InitCacheObsNone /\ InitContextDefault /\ InitFetchIdle
    /\ task = [p \in Procs |-> [IdleTask EXCEPT !.calls = SeqMaxCalls]]
    /\ upstream = [balance |-> 0, faults |-> SeqMaxFaults, populated |-> {}]
    /\ inbox = 0
    /\ replies = << >>

NextSeq ==
    \/ NextFetch
    \/ CheckLimitWake(1)

SpecSeq == InitSeq /\ [][NextSeq]_vars

-----------------------------------------------------------------------------
(* Claims about one apiFetch call (SpecFetch).                               *)

\* the call of caller 1 has ended; LastCall is its log entry
Ended == call[1].pc \in {"returned", "threw"}
LastCall == callLog[Len(callLog)]

\* the body a 2xx response gives the caller: the JSON value, or the raw
\* text wrapped when there is none
Delivered(resp) ==
    IF resp.text.k = "json" /\ resp.text.v.t # "null"
    THEN resp.text.v
    ELSE [t |-> "obj", o |-> [raw |-> resp.text]]

C3_RetriesExhausted ==
    LET o == obs[1]
    IN (Ended /\ o.attempts >= 1 /\ o.retryable = o.attempts /\ o.failures = 0)
         => /\ call[1].pc = "threw"
            /\ o.attempts = call[1].maxRetries + 1
            /\ call[1].out.name = "ApiError"
            /\ call[1].out.details.status = LastCall.resp.status
            /\ call[1].out.details.response =
                  (IF LastCall.resp.text.k = "json" THEN LastCall.resp.text.v
                   ELSE [t |-> "null"])

C3_Witness ==
    /\ Ended /\ call[1].pc = "threw"
    /\ obs[1].retryable = 3 /\ obs[1].attempts = 3 /\ obs[1].failures = 0
    /\ call[1].out.name = "ApiError" /\ call[1].out.details.status = 429

\* C8: with no API key configured, a call that is not served from the cache
\* fails without any HTTP attempt and without any sleep of the retry loop.
C8_NoKeyFailsFast ==
    (Ended /\ apiKey \in {[t |-> "null"], JStr("")} /\ ~LastCall.hit)
       => /\ call[1].pc = "threw"
          /\ obs[1].attempts = 0
          /\ obs[1].sleeps = << >>

C8_Witness ==
    /\ Ended /\ apiKey = [t |-> "null"] /\ ~LastCall.hit
    /\ call[1].pc = "threw"
    /\ call[1].out.details.field = "apiKey"
    /\ call[1].args.method = JStr("GET")

\* a client error that is not a throttle: 4xx other than 429
ClientError(status) == status >= 400 /\ status < 500 /\ status # 429

\* C27: a response with a 4xx status other than 429 ends the call: an
\* ApiError is thrown at once, with no sleep and no further attempt.
C27_ClientErrorEndsCall ==
    ClientError(obs[1].answer)
       => /\ call[1].pc \in {"threw", "none"}
          /\ call[1].pc = "threw" => call[1].out.name = "ApiError"

C29_BoundedAttemptsThenEnds ==
    /\ [](obs[1].attempts <= CONFIG.maxRetries + 1)
    /\ [](call[1].pc \in {"fetch", "backoff"} => obs[1].attempts >= 1)
    /\ (call[1].pc = "fetch") ~> Ended

\* a call that ended on its fifth attempt, after throttles or server errors
\* and other failures
C29_Witness ==
    /\ Ended /\ call[1].pc = "returned"
    /\ CONFIG.maxRetries = 4 /\ obs[1].attempts = 5
    /\ obs[1].retryable = 2 /\ obs[1].failures = 2

\* C34: every HTTP attempt of a call, the retries after a 429, a 5xx or an
\* exception among them, comes straight out of a rate-limiter check of its
\* own, which put one timestamp into the window.
C34_RateCheckPerAttempt ==
    [][obs'[1].attempts = obs[1].attempts + 1
          => call[1].pc = "rateDone"]_vars

\* C35: the step that ends a call increments exactly one of the counters
\* cache_hits, api_requests_success, api_requests_failed, by one: cache_hits
\* when the call was answered from the cache, api_requests_success when it
\* returned a 2xx, api_requests_failed when it threw; no other step changes
\* a counter, so that the three add up to the number of completed calls.
C35_OneOutcomeCounterPerCall ==
    [][LET ends == call[1].pc \notin {"returned", "threw"}
                      /\ call'[1].pc \in {"returned", "threw"}
           counter == IF call'[1].pc = "threw" THEN "api_requests_failed"
                      ELSE IF callLog'[Len(callLog')].hit THEN "cache_hits"
                      ELSE "api_requests_success"
       IN IF ends THEN metrics' = [metrics EXCEPT ![counter] = @ + 1]
          ELSE metrics' = metrics]_vars

-----------------------------------------------------------------------------
(* Claims about consecutive apiFetch calls (SpecSeq).                        *)

\* the last two calls are two reads of one path and query, the first
\* answered 2xx by its only attempt, the second ended within the ttl of the
\* entry the first one stored
TwoReads ==
    /\ Len(callLog) = 2
    /\ CONFIG.enableCaching
    /\ callLog[1].args = callLog[2].args
    /\ callLog[1].args.method = JStr("GET")
    /\ callLog[1].kind = "returned" /\ callLog[2].kind = "returned"
    /\ callLog[1].attempts = 1
    /\ callLog[2].t1 <= callLog[1].t1 + cacheCfg.ttl

\* C4: with caching enabled, two consecutive GET calls with the same path
\* and query, the second within the ttl, cause exactly one upstream HTTP
\* call and return equal values, whatever the 2xx body.
C4_SecondReadFromCache ==
    TwoReads => /\ callLog[1].attempts + callLog[2].attempts = 1
                /\ callLog[2].out = callLog[1].out

\* what made a call fail: a path or method that is no non-empty string of
\* at most 1000 characters, an absent credential, or a response that is
\* not 2xx
FailedValidation(e) ==
    /\ e.kind = "threw" /\ e.attempts = 0
    /\ \/ e.args.path.t # "str" \/ e.args.path = JStr("")
       \/ e.args.path = JStr(LongPath)
       \/ e.args.method.t # "str" \/ e.args.method = JStr("")
FailedCredential(e) ==
    /\ e.kind = "threw" /\ e.attempts = 0 /\ ~FailedValidation(e)
    /\ apiKey \in {[t |-> "null"], JStr("")}
FailedResponse(e) ==
    /\ e.kind = "threw" /\ e.attempts >= 1
    /\ e.resp # [t |-> "null"] /\ "status" \in DOMAIN e.resp

\* C9: the terminal failures are distinguishable by kind: a missing
\* credential, an invalid path or method and a non-2xx response after the
\* retries raise errors of three different codes.
C9_FailuresDistinctByCode ==
    \A i, j \in 1..Len(callLog) :
        LET e == callLog[i]
            f == callLog[j]
        IN /\ (FailedCredential(e) /\ FailedValidation(f)) => e.out.code # f.out.code
           /\ (FailedCredential(e) /\ FailedResponse(f)) => e.out.code # f.out.code
           /\ (FailedValidation(e) /\ FailedResponse(f)) => e.out.code # f.out.code

\* the keys whose entry the Map m2 has and m has not, or has otherwise
AddedOrChanged(m, m2) ==
    {e \in MapKeys(m2) : ~MapHas(m, e) \/ m[MapIndex(m, e)] # m2[MapIndex(m2, e)]}

\* the steps of C30: only a GET call changes the Map or is answered from
\* it, and an entry is added or changed only in the step in which a GET call
\* receives a 2xx response and returns, the entry being the one of that
\* call's key with the value returned
OnlyGetAddsAfter2xx ==
    LET c == call[1]
        isGet == c.args # Null /\ c.args.method = JStr("GET")
    IN /\ cache' # cache => isGet
       /\ (call'[1].pc = "returned" /\ c.pc # "returned"
             /\ callLog'[Len(callLog')].hit) => isGet
       /\ AddedOrChanged(cache, cache') # {}
             => /\ isGet /\ c.pc = "fetch" /\ call'[1].pc = "returned"
                /\ obs'[1].answer >= 200 /\ obs'[1].answer < 300
                /\ AddedOrChanged(cache, cache') = {CacheKey(c.args)}
                /\ cache'[MapIndex(cache', CacheKey(c.args))].item.value = call'[1].out

\* C30 as stated: only a GET call touches the cache, a GET call adds an entry
\* only after a 2xx response, and a call that failed has left the cache
\* unchanged.
C30_FailedCallLeavesCacheUnchanged ==
    [][/\ OnlyGetAddsAfter2xx
       /\ (call'[1].pc = "threw" /\ call[1].pc # "threw")
             => cache' = obs'[1].before]_vars

\* C30, amended: only a GET call touches the cache, a GET call adds an entry
\* only after a 2xx response, and a call that failed has added and changed
\* no entry: all it may have done is drop, in its lookup, the expired entry
\* of its own key.
C30_OnlyGetTouchesCache ==
    [][/\ OnlyGetAddsAfter2xx
       /\ (call'[1].pc = "threw" /\ call[1].pc # "threw")
             => LET before == obs'[1].before
                    key == CacheKey(call'[1].args)
                IN \/ cache' = before
                   \/ /\ call'[1].args.method = JStr("GET")
                      /\ MapHas(before, key)
                      /\ before[MapIndex(before, key)].item.expires < now
                      /\ cache' = MapDelete(before, key)]_vars

\* a read that failed after at least one attempt, its lookup having dropped
\* the expired entry an earlier read had stored
C30_Witness ==
    /\ call[1].pc = "threw" /\ call[1].args.method = JStr("GET")
    /\ obs[1].attempts >= 1
    /\ obs[1].before # << >> /\ cache = << >>
    /\ Len(callLog) = 2 /\ callLog[1].kind = "returned" /\ ~callLog[1].hit

-----------------------------------------------------------------------------
(* The upstream REST API, as the server sees it: the wallet of the account, *)
(* the domains of each workspace, a price per domain.  A purchase paid from  *)
(* the wallet lowers the balance; any other purchase answers with a payment  *)
(* link.                                                                     *)

Price(domainName) == IF domainName \in {"example.com", "Example.com"} THEN 150 ELSE 75

RECURSIVE Cost(_)
Cost(domains) ==
    IF domains = << >> THEN 0
    ELSE Price(domains[1].domainName) * domains[1].years + Cost(Tail(domains))

\* the domains the upstream holds for workspace ws, and its answer to a
\* GET /v2/domains made with x-workspace-key = ws
DomainList(ws) ==
    CASE ws = JStr("w1") ->
           << [id |-> "d1", domain |-> "example.com", assignedMailboxesCount |-> 0],
              [id |-> "d2", domain |-> "test.io", assignedMailboxesCount |-> 2] >>
      [] ws = JStr("w2") ->
           << [id |-> "d3", domain |-> "other.net", assignedMailboxesCount |-> 0],
              [id |-> "d4", domain |-> "more.org", assignedMailboxesCount |-> 0] >>
      [] OTHER -> << >>

DomainsOf(ws) == JObj([domains |-> DomainList(ws)])

\* the same list once the domains of up.populated were given mailboxes: such
\* a domain reports a count above zero
DomainsNow(ws, up) ==
    JObj([domains |-> [i \in DOMAIN DomainList(ws) |->
             IF DomainList(ws)[i].id \in up.populated
             THEN [DomainList(ws)[i] EXCEPT !.assignedMailboxesCount = @ + 1]
             ELSE DomainList(ws)[i]]])

\* a POST /v2/mailboxes that assigns mailboxes to a domain
Assigns(req) ==
    /\ req.path = JStr("/v2/mailboxes") /\ req.method = JStr("POST")
    /\ req.hasBody /\ "domainId" \in DOMAIN req.body

\* the response to req and the upstream after it
ZapmailAnswer(req, up) ==
    CASE req.path = JStr("/v2/wallet/balance") ->
           [resp |-> [status |-> 200,
                      text |-> JsonText(JObj([walletBalance |-> JNum(up.balance)]))],
            up |-> up]
      [] req.path = JStr("/v2/domains") ->
           [resp |-> [status |-> 200,
                      text |-> JsonText(DomainsNow(req.headers.ws, up))],
            up |-> up]
      [] Assigns(req) ->
           [resp |-> [status |-> 200, text |-> JsonText(JObj([ok |-> JBool(TRUE)]))],
            up |-> [up EXCEPT !.populated = @ \cup {req.body.domainId}]]
      [] req.path = JStr("/v2/domains/available") ->
           [resp |-> [status |-> 200,
                      text |-> JsonText(JObj([availableDomains |->
                         <<[domainName |-> IF req.body.domainName = "Example.com"
                                           THEN "example.com"
                                           ELSE req.body.domainName,
                            domainPrice |-> Price(req.body.domainName)]>>]))],
            up |-> up]
      [] req.path = JStr("/v2/domains/buy") ->
           IF req.body.useWallet /\ up.balance >= Cost(req.body.domains)
           THEN [resp |-> [status |-> 200,
                           text |-> JsonText(JObj([status |-> JStr("purchased")]))],
                 up |-> [up EXCEPT !.balance = @ - Cost(req.body.domains)]]
           ELSE [resp |-> [status |-> 200,
                           text |-> JsonText(JObj([paymentLink |-> JStr("link")]))],
                 up |-> up]
      [] OTHER ->
           [resp |-> [status |-> 200, text |-> JsonText(JObj([ok |-> JBool(TRUE)]))],
            up |-> up]

UpstreamZapmail(p) ==
    /\ call[p].pc = "fetch"
    /\ upstream' = ZapmailAnswer(call[p].req, upstream).up
    /\ OnResponse(p, ZapmailAnswer(call[p].req, upstream).resp)
    /\ UNCHANGED <<now, cacheCfg, cacheObs, rateVars, envVars, CONTEXT, task, inbox,
                   replies>>

-----------------------------------------------------------------------------
(* High-level primitives (index.js 2822-2950).                               *)

\* ...(ws ? { "x-workspace-key": ws } : {}), the same for the provider, with
\* ws = workspaceKey ?? CONTEXT.workspaceKey
ToUpperCase(str) ==
    CASE str = "microsoft" -> "MICROSOFT"
      [] str = "get" -> "GET"
      [] str = "post" -> "POST"
      [] str = "Delete" -> "DELETE"
      [] OTHER -> str
ToLowerCase(str) ==
    CASE str \in {"Example.com", "Example.COM"} -> "example.com"
      [] str = "Create" -> "create"
      [] OTHER -> str

HeadersFor(workspaceKey, serviceProvider, ctx) ==
    LET ws == IF workspaceKey # Null THEN workspaceKey ELSE ctx.workspaceKey
        sp == IF serviceProvider # Null THEN serviceProvider ELSE ctx.serviceProvider
    IN [ws |-> IF Truthy(ws) THEN ws ELSE Null,
        sp |-> IF Truthy(sp) THEN JStr(ToUpperCase(sp.s)) ELSE Null]

\* getWalletBalance: the request, and the balance read off the answer
BalanceArgs ==
    [path |-> JStr("/v2/wallet/balance"), method |-> JStr("GET"), query |-> Null,
     headers |-> NoHeaders, body |-> Null]

WalletBalanceOf(data) ==
    IF data.t = "obj" /\ "walletBalance" \in DOMAIN data.o
       /\ data.o.walletBalance.t = "num"
    THEN data.o.walletBalance.n
    ELSE IF data.t = "obj" /\ "balance" \in DOMAIN data.o /\ data.o.balance.t = "num"
    THEN data.o.balance.n
    ELSE 0

\* listDomains({contains, workspaceKey, serviceProvider})
ListDomainsArgs(input, ctx) ==
    [path |-> JStr("/v2/domains"), method |-> JStr("GET"),
     query |-> IF Truthy(input.contains)
               THEN [entries |-> <<<<"contains", input.contains>>>>] ELSE Null,
     headers |-> HeadersFor(input.workspaceKey, input.serviceProvider, ctx),
     body |-> Null]

\* checkDomainAvailabilitySingle(domainName, years, ws, sp) through
\* invokeSlug, which is given the method and the path
AvailabilityArgs(domainName, years, ws, sp, ctx) ==
    [path |-> JStr("/v2/domains/available"), method |-> JStr("POST"), query |-> Null,
     headers |-> HeadersFor(ws, sp, ctx),
     body |-> [domainName |-> domainName, years |-> years]]

\* the price read off an availability answer: the entry of the domain,
\* else the first entry, else 0
PriceOf(avail, d) ==
    IF avail.t = "obj" /\ "availableDomains" \in DOMAIN avail.o
       /\ Len(avail.o.availableDomains) > 0
    THEN LET list == avail.o.availableDomains
             Match(i) == ToLowerCase(list[i].domainName) = ToLowerCase(d)
         IN IF \E i \in 1..Len(list) : Match(i)
            THEN list[CHOOSE i \in 1..Len(list) :
                        Match(i) /\ \A j \in 1..(i - 1) : ~Match(j)].domainPrice
            ELSE list[1].domainPrice
    ELSE 0

\* useWallet = bal >= total
UseWallet(bal, total) == bal >= total

BuyArgs(loc) ==
    [path |-> JStr("/v2/domains/buy"), method |-> JStr("POST"), query |-> Null,
     headers |-> loc.headers,
     body |-> [domains |-> [i \in 1..Len(loc.domains) |->
                              [domainName |-> loc.domains[i], years |-> loc.years]],
               useWallet |-> loc.useWallet]]

\* purchaseDomains: its locals at entry, after an availability answer, after
\* the balance, and its return value; upstreamBalance is not a local of the
\* code, it notes the upstream balance at the moment useWallet is decided
PurchaseLocals(domains, years, preferWallet, headers) ==
    [domains |-> domains, years |-> years, preferWallet |-> preferWallet,
     headers |-> headers, i |-> 1, total |-> 0, useWallet |-> FALSE,
     upstreamBalance |-> 0]

AfterAvailableOnce(loc, avail) ==
    [loc EXCEPT !.total = @ + PriceOf(avail, loc.domains[loc.i]) * loc.years,
                !.i = Len(loc.domains) + 1]

AfterAvailable(loc, avail) ==
    [loc EXCEPT !.total = @ + PriceOf(avail, loc.domains[loc.i]) * loc.years,
                !.i = @ + 1]

AfterBalance(loc, data, up) ==
    [loc EXCEPT !.useWallet = UseWallet(WalletBalanceOf(data), loc.total),
                !.upstreamBalance = up.balance]

PurchaseResult(loc, result) ==
    [useWallet |-> loc.useWallet, total |-> loc.total, result |-> result,
     upstreamBalance |-> loc.upstreamBalance]

-----------------------------------------------------------------------------
(* The JSON-RPC loop (index.js 5718-5745) and handleToolsInvoke (index.js    *)
(* 4502-5493).  The loop starts the handler of every line it reads and does  *)
(* not await it.                                                             *)

NumRequests == 2
ServerWindowRoom == 2
ServerMaxNow == 130000

Workspaces == {JStr("w1"), JStr("w2")}

ServerRequests ==
    {[tool |-> "set_context", workspaceKey |-> w, serviceProvider |-> Null]
        : w \in Workspaces}
    \cup {[tool |-> "set_context", workspaceKey |-> JNum(1),
            serviceProvider |-> JStr("microsoft")]}
    \cup {[tool |-> "wallet_balance"]}
    \cup {[tool |-> "list_domains", contains |-> Null, workspaceKey |-> w,
            serviceProvider |-> Null] : w \in {Null, JStr("w2")}}
    \cup {[tool |-> "purchase_domains", domains |-> d, years |-> 1,
            preferWallet |-> w, workspaceKey |-> Null, serviceProvider |-> Null]
           : d \in {<<"example.com">>, <<"Example.com", "test.io">>, << >>},
             w \in BOOLEAN}
    \cup {[tool |-> "purchase_domains", domains |-> <<"example.com">>, years |-> 1,
            preferWallet |-> TRUE, workspaceKey |-> JStr("w2"),
            serviceProvider |-> JStr("microsoft")]}
    \cup {[tool |-> "clear_cache", confirm |-> b] : b \in BOOLEAN}

\* sendResult(id, result) and sendError(id, -32000, err.message)
SendResult(p, result) ==
    Append(replies, [id |-> p, req |-> task[p].req, ok |-> TRUE, result |-> result])
SendError(p, req, err) ==
    Append(replies, [id |-> p, req |-> req, ok |-> FALSE, result |-> err])

\* whether the handler of req does anything but reply
Acts(req) ==
    /\ ~(req.tool = "purchase_domains" /\ req.domains = << >>)
    /\ ~(req.tool = "clear_cache" /\ ~req.confirm)

\* the handlers that have started and not yet replied
Running == {p \in Procs : task[p].pc # "idle"}

\* a line read from stdin: handleToolsInvoke(id, params) up to the first
\* suspension of the tool
Handle(p, req) ==
    LET t == [IdleTask EXCEPT !.req = req, !.overlap = Running # {} /\ Acts(req)]
    IN
    /\ inbox > 0
    /\ task[p].pc = "idle"
    /\ \A q \in Procs : q < p => task[q].pc # "idle"
    /\ inbox' = inbox - 1
    /\ CASE req.tool = "set_context" ->
             /\ CONTEXT' =
                  [workspaceKey |-> IF req.workspaceKey.t = "str"
                                    THEN req.workspaceKey ELSE CONTEXT.workspaceKey,
                   serviceProvider |-> IF req.serviceProvider.t = "str"
                                       THEN JStr(ToUpperCase(req.serviceProvider.s))
                                       ELSE CONTEXT.serviceProvider]
             /\ replies' = Append(replies, [id |-> p, req |-> req, ok |-> TRUE,
                                            result |-> JStr("Context updated")])
             /\ task' = [task EXCEPT ![p] = [t EXCEPT !.pc = "idle"]]
             /\ UNCHANGED <<cache, requests, released, fetchVars>>
         [] req.tool = "clear_cache" ->
             /\ cache' = IF req.confirm /\ CONFIG.enableCaching THEN CacheClear(cache)
                         ELSE cache
             /\ replies' = IF req.confirm
                           THEN Append(replies, [id |-> p, req |-> req, ok |-> TRUE,
                                                 result |-> JStr("Cache cleared")])
                           ELSE SendError(p, req, JStr("Cache clear requires confirmation"))
             /\ task' = [task EXCEPT ![p] = [t EXCEPT !.pc = "idle"]]
             /\ UNCHANGED <<CONTEXT, requests, released, fetchVars>>
         [] req.tool = "wallet_balance" ->
             /\ ApiFetchStart(p, BalanceArgs)
             /\ task' = [task EXCEPT ![p] = [t EXCEPT !.pc = "wallet_balance"]]
             /\ UNCHANGED <<CONTEXT, cache, replies>>
         [] req.tool = "list_domains" ->
             /\ ApiFetchStart(p, ListDomainsArgs(req, CONTEXT))
             /\ task' = [task EXCEPT ![p] = [t EXCEPT !.pc = "list_domains"]]
             /\ UNCHANGED <<CONTEXT, cache, replies>>
         [] req.tool = "purchase_domains" ->
             IF req.domains = << >>
             THEN /\ replies' = SendError(p, req, JStr("'domains' must be a non-empty array"))
                  /\ task' = [task EXCEPT ![p] = [t EXCEPT !.pc = "idle"]]
                  /\ UNCHANGED <<CONTEXT, cache, requests, released, fetchVars>>
             ELSE LET headers == HeadersFor(req.workspaceKey, req.serviceProvider, CONTEXT)
                  IN /\ ApiFetchStart(p, AvailabilityArgs(req.domains[1], req.years,
                                                             headers.ws, headers.sp, CONTEXT))
                     /\ task' = [task EXCEPT ![p] =
                           [t EXCEPT !.pc = "purchase.available",
                                     !.loc = PurchaseLocals(req.domains, req.years,
                                                            req.preferWallet, headers)]]
                     /\ UNCHANGED <<CONTEXT, cache, replies>>
    /\ UNCHANGED <<now, cacheCfg, cacheObs, limiter, envVars, upstream>>

\* the handler after an awaited apiFetch: the rest of the primitive, the next
\* apiFetch or the reply; an exception goes to the catch of handleToolsInvoke
HandlerResume(p) ==
    LET t == task[p]
        out == call[p].out
        done == [t EXCEPT !.pc = "idle", !.loc = Null]
    IN
    /\ t.pc # "idle"
    /\ call[p].pc \in {"returned", "threw"}
    /\ IF call[p].pc = "threw"
       THEN /\ replies' = SendError(p, t.req, out)
            /\ task' = [task EXCEPT ![p] = done]
            /\ call' = [call EXCEPT ![p] = IdleCall]
            /\ UNCHANGED <<requests, released, obs, callLog, metrics>>
       ELSE CASE t.pc = "wallet_balance" ->
                 /\ replies' = SendResult(p, [balance |-> WalletBalanceOf(out),
                                              context |-> CONTEXT])
                 /\ task' = [task EXCEPT ![p] = done]
                 /\ call' = [call EXCEPT ![p] = IdleCall]
                 /\ UNCHANGED <<requests, released, obs, callLog, metrics>>
              [] t.pc = "list_domains" ->
                 /\ replies' = SendResult(p, [domains |-> out])
                 /\ task' = [task EXCEPT ![p] = done]
                 /\ call' = [call EXCEPT ![p] = IdleCall]
                 /\ UNCHANGED <<requests, released, obs, callLog, metrics>>
              [] t.pc = "purchase.available" ->
                 LET loc == AfterAvailable(t.loc, out)
                 IN IF loc.i <= Len(loc.domains)
                    THEN /\ ApiFetchStart(p, AvailabilityArgs(loc.domains[loc.i], loc.years,
                                             loc.headers.ws, loc.headers.sp, CONTEXT))
                         /\ task' = [task EXCEPT ![p].loc = loc]
                         /\ UNCHANGED replies
                    ELSE IF loc.preferWallet
                    THEN /\ ApiFetchStart(p, BalanceArgs)
                         /\ task' = [task EXCEPT ![p].loc = loc,
                                                 ![p].pc = "purchase.balance"]
                         /\ UNCHANGED replies
                    ELSE /\ ApiFetchStart(p, BuyArgs(loc))
                         /\ task' = [task EXCEPT ![p].loc = loc, ![p].pc = "purchase.buy"]
                         /\ UNCHANGED replies
              [] t.pc = "purchase.balance" ->
                 LET loc == AfterBalance(t.loc, out, upstream)
                 IN /\ ApiFetchStart(p, BuyArgs(loc))
                    /\ task' = [task EXCEPT ![p].loc = loc, ![p].pc = "purchase.buy"]
                    /\ UNCHANGED replies
              [] t.pc = "purchase.buy" ->
                 /\ replies' = SendResult(p, PurchaseResult(t.loc, out))
                 /\ task' = [task EXCEPT ![p] = done]
                 /\ call' = [call EXCEPT ![p] = IdleCall]
                 /\ UNCHANGED <<requests, released, obs, callLog, metrics>>
    /\ UNCHANGED <<now, cacheVars, cacheObs, limiter, envVars, CONTEXT, upstream, inbox>>

\* a server some time after its start: a key or none in the environment, a
\* workspace in CONTEXT, room for ServerWindowRoom more requests in the
\* current rate window
InitServer ==
    /\ now = 0
    /\ limiter = [maxRequests |-> DefaultMaxRequests, windowMs |-> DefaultWindowMs]
    /\ requests = [i \in 1..(DefaultMaxRequests - ServerWindowRoom) |-> 0]
    /\ released = requests
    /\ apiKey \in {JStr("key"), Null}
    /\ FEATURE_FLAGS = [llmPlanner |-> FALSE]
    /\ CONFIG = [maxRetries |-> DefaultMaxRetries, enableCaching |-> TRUE]
    /\ InitCacheDefault /\ InitCacheObsNone /\ InitFetchIdle
    /\ CONTEXT = [workspaceKey |-> JStr("w1"), serviceProvider |-> JStr("GOOGLE")]
    /\ task = [p \in Procs |-> IdleTask]
    /\ upstream \in {[balance |-> b, faults |-> 0, populated |-> {}] : b \in {100, 200}}
    /\ inbox = NumRequests
    /\ replies = << >>

ServerTick ==
    /\ Sleeping # {}
    /\ now < NextWake
    /\ NextWake <= ServerMaxNow
    /\ now' = NextWake
    /\ UNCHANGED <<rateVars, cacheVars, cacheObs, envVars, CONTEXT, fetchVars, serverVars>>

NextServer ==
    \/ \E p \in Procs, req \in ServerRequests : Handle(p, req)
    \/ \E p \in Procs : HandlerResume(p)
    \/ \E p \in Procs : ApiFetchResume(p)
    \/ \E p \in Procs : CheckLimitWake(p)
    \/ \E p \in Procs : UpstreamZapmail(p)
    \/ ServerTick

SpecServer == InitServer /\ [][NextServer]_vars

-----------------------------------------------------------------------------
(* Claims about the server (SpecServer).                                     *)

\* C5: a value returned by GET /v2/domains made under workspace W is the
\* data of workspace W, fetched by a request that carried x-workspace-key = W,
\* also after the workspace has changed.
C5_NoCrossWorkspaceData ==
    \A i \in 1..Len(callLog) :
        LET e == callLog[i]
        IN (/\ e.kind = "returned"
            /\ e.args.method = JStr("GET")
            /\ e.args.path = JStr("/v2/domains"))
           => e.out = DomainsOf(e.ws)

\* C6: a purchase made with preferWallet = true answers useWallet = true
\* exactly when the upstream balance, at the time the purchase decides, is at
\* least the total cost.
C6_UseWalletIffBalanceCovers ==
    \A i \in 1..Len(replies) :
        LET r == replies[i]
        IN (r.ok /\ r.req.tool = "purchase_domains" /\ r.req.preferWallet)
           => /\ r.result.total = Cost([j \in 1..Len(r.req.domains) |->
                     [domainName |-> r.req.domains[j], years |-> r.req.years]])
              /\ r.result.useWallet = (r.result.upstreamBalance >= r.result.total)

\* C7: no handler acts between the first action and the reply of the
\* handler of an earlier request.
C7_OneRequestAtATime == \A p \in Procs : ~task[p].overlap

Purchasing == {p \in Procs : task[p].pc \in {"purchase.available", "purchase.balance",
                                             "purchase.buy"}}

\* C36: every request one purchaseDomains invocation sends (the availability
\* checks, the balance read, the buy request) carries the workspace and the
\* provider the invocation began with: the override of the call when given,
\* else the CONTEXT of that moment.
C36_PurchaseKeepsItsHeaders ==
    \A p \in Purchasing :
        call[p].pc = "fetch"
           => /\ call[p].req.headers.ws = task[p].loc.headers.ws
              /\ call[p].req.headers.sp = task[p].loc.headers.sp

-----------------------------------------------------------------------------
(* The purchase harness: one purchase_domains request to a server whose      *)
(* upstream fails a few of the requests it is sent.                          *)

PurchaseMaxRetries == 1
PurchaseMaxFaults == 2

PurchaseRequests == {req \in ServerRequests : req.tool = "purchase_domains"}

InitPurchase ==
    /\ now = 0
    /\ limiter = [maxRequests |-> DefaultMaxRequests, windowMs |-> DefaultWindowMs]
    /\ requests = << >>
    /\ released = requests
    /\ apiKey = JStr("key")
    /\ FEATURE_FLAGS = [llmPlanner |-> FALSE]
    /\ CONFIG \in [maxRetries : 0..PurchaseMaxRetries, enableCaching : {TRUE}]
    /\ InitCacheDefault /\ InitCacheObsNone /\ InitFetchIdle
    /\ CONTEXT = [workspaceKey |-> JStr("w1"), serviceProvider |-> JStr("GOOGLE")]
    /\ task = [p \in Procs |-> IdleTask]
    /\ upstream \in {[balance |-> 200, faults |-> f, populated |-> {}] : f \in 0..PurchaseMaxFaults}
    /\ inbox = 1
    /\ replies = << >>

NextPurchase ==
    \/ inbox > 0 /\ \E p \in Procs, req \in PurchaseRequests : Handle(p, req)
    \/ \E p \in Procs : HandlerResume(p)
    \/ \E p \in Procs : ApiFetchResume(p)
    \/ \E p \in Procs : UpstreamZapmail(p)
    \/ \E p \in Procs, resp \in Faults : UpstreamFault(p, resp)
    \/ \E p \in Procs : ApiFetchWake(p)
    \/ ServerTick

SpecPurchase == InitPurchase /\ [][NextPurchase]_vars

\* C37: in a purchase that prefers the wallet the balance read starts when
\* the answer of the last availability check is in, the buy request starts
\* when the balance read has returned, no request for /v2/domains/buy is in
\* the hands of apiFetch before that, and after an availability check or a
\* balance read that threw the handler ends without a buy request.
C37_WalletFirstOrdering ==
    [][\A p \in Procs :
         LET t == task[p]
             t2 == task'[p]
         IN /\ (t2.pc = "purchase.balance" /\ t.pc # "purchase.balance")
                  => /\ t.pc = "purchase.available"
                     /\ call[p].pc = "returned"
                     /\ t.loc.i = Len(t.loc.domains)
            /\ (t2.pc = "purchase.buy" /\ t.pc # "purchase.buy" /\ t2.loc.preferWallet)
                  => /\ t.pc = "purchase.balance"
                     /\ call[p].pc = "returned"
            /\ (call'[p].pc # "none" /\ call'[p].args.path = JStr("/v2/domains/buy"))
                  => t2.pc = "purchase.buy"
            /\ (t.pc \in {"purchase.available", "purchase.balance"}
                  /\ call[p].pc = "threw" /\ t2 # t)
                  => /\ t2.pc = "idle"
                     /\ call'[p].pc = "none"]_vars

\* the buy request of a two-domain purchase that prefers the wallet is with
\* the upstream; the two calls before it were the second availability check
\* and then the balance read
C37_Witness ==
    \E p \in Procs :
        /\ task[p].pc = "purchase.buy"
        /\ task[p].loc.preferWallet
        /\ Len(task[p].loc.domains) = 2
        /\ call[p].pc = "fetch"
        /\ Len(callLog) >= 2
        /\ callLog[Len(callLog) - 1].args.path = JStr("/v2/domains/available")
        /\ callLog[Len(callLog) - 1].kind = "returned"
        /\ callLog[Len(callLog)].args = BalanceArgs
        /\ callLog[Len(callLog)].kind = "returned"
        /\ callLog[Len(callLog) - 1].t1 <= callLog[Len(callLog)].t0

-----------------------------------------------------------------------------
(* The natural language planner (index.js 3217-3653).  An instruction is the *)
(* sequence of its words, a word being what whitespace separates; no word of *)
(* the vocabulary holds, between two of its own word boundaries, a word that *)
(* a pattern looks for, so a pattern \b(A)\b.*\b(B)\b is a word of A with a  *)
(* word of B somewhere after it.  The i flag is toLowerCase on the words.    *)

RECURSIVE MatchSeq(_, _)
MatchSeq(q, pat) ==
    IF pat = << >> THEN TRUE
    ELSE \E i \in 1..Len(q) :
            /\ ToLowerCase(q[i]) \in pat[1]
            /\ MatchSeq(SubSeq(q, i + 1, Len(q)), Tail(pat))

Mailboxes == {"mailboxe", "mailboxes", "inboxe", "inboxes"}
Emails == {"mailboxe", "mailboxes", "email", "emails"}
Domains == {"domain", "domains"}
ReplyIo == {"reply.io", "replyio"}

INTENT_PATTERNS ==
    << [intent |-> "LIST_WORKSPACES",
        test |-> <<{"list", "show", "get"}, {"workspace", "workspaces"}>>],
       [intent |-> "LIST_DOMAINS",
        test |-> <<{"list", "show", "get"}, Domains>>],
       [intent |-> "CHECK_DOMAIN",
        test |-> <<{"check", "is", "are"}, Domains, {"available"}>>],
       [intent |-> "BUY_DOMAINS",
        test |-> <<{"buy", "purchase", "register"}, Domains>>],
       [intent |-> "CREATE_MAILBOXES_EMPTY",
        test |-> <<{"create", "add", "setup"}, Mailboxes, {"0", "zero"}, Domains>>],
       [intent |-> "CONNECT_EXPORT_APP",
        test |-> <<{"connect", "link", "add"},
                   {"instantly", "reachinbox", "smartlead"} \cup ReplyIo>>],
       [intent |-> "EXPORT_TO_REACHINBOX",
        test |-> <<{"export", "send", "transfer"}, {"reachinbox", "reachin"}>>],
       [intent |-> "EXPORT_TO_INSTANTLY",
        test |-> <<{"export", "send", "transfer"}, {"instantly"}>>],
       [intent |-> "EXPORT_TO_SMARTLEAD",
        test |-> <<{"export", "send", "transfer"}, {"smartlead"}>>],
       [intent |-> "EXPORT_TO_REPLYIO",
        test |-> <<{"export", "send", "transfer"}, ReplyIo>>],
       [intent |-> "EXPORT_MAILBOXES",
        test |-> <<{"export", "download", "get"},
                   Emails \cup {"contact", "contacts"}>>],
       [intent |-> "EXPORT_CSV",
        test |-> <<{"export", "download", "get"}, {"csv", "file", "spreadsheet"}>>],
       [intent |-> "EXPORT_SPECIFIC",
        test |-> <<{"export", "send"}, {"specific", "certain", "selected"}, Emails>>],
       [intent |-> "EXPORT_BY_DOMAIN",
        test |-> <<{"export", "send"}, Domains, Emails>>] >>

\* /\b(mailboxes?|inboxes?)\b.*\b(connect|link)\b/i
CompoundTest == <<Mailboxes, {"connect", "link"}>>

\* the for loop over INTENT_PATTERNS with its break, then the compound test
MatchedLast(q) ==
    IF \E i \in 1..Len(INTENT_PATTERNS) : MatchSeq(q, INTENT_PATTERNS[i].test)
    THEN INTENT_PATTERNS[CHOOSE i \in 1..Len(INTENT_PATTERNS) :
            /\ MatchSeq(q, INTENT_PATTERNS[i].test)
            /\ \A j \in (i + 1)..Len(INTENT_PATTERNS) :
                  ~MatchSeq(q, INTENT_PATTERNS[j].test)].intent
    ELSE IF MatchSeq(q, CompoundTest) THEN "CREATE_AND_CONNECT"
    ELSE "none"

Matched(q) ==
    IF \E i \in 1..Len(INTENT_PATTERNS) : MatchSeq(q, INTENT_PATTERNS[i].test)
    THEN INTENT_PATTERNS[CHOOSE i \in 1..Len(INTENT_PATTERNS) :
            /\ MatchSeq(q, INTENT_PATTERNS[i].test)
            /\ \A j \in 1..(i - 1) : ~MatchSeq(q, INTENT_PATTERNS[j].test)].intent
    ELSE IF MatchSeq(q, CompoundTest) THEN "CREATE_AND_CONNECT"
    ELSE "none"

\* /\b([a-z0-9-]+\.(?:com|net|org|io|ai|app|co|in))\b/gi, lower-cased
HostOf(w) ==
    IF ToLowerCase(w) \in {"example.com", "test.io", "test.com", "reply.io"}
    THEN ToLowerCase(w)
    ELSE "none"

\* \d+
NumOf(w) == CASE w = "0" -> 0 [] w = "1" -> 1 [] w = "2" -> 2 [] w = "3" -> 3
              [] OTHER -> -1

\* simpleParseDomains: the Set of the hosts, in the order of first appearance
RECURSIVE SimpleParseDomains(_)
SimpleParseDomains(q) ==
    IF q = << >> THEN << >>
    ELSE LET front == SimpleParseDomains(SubSeq(q, 1, Len(q) - 1))
             h == HostOf(q[Len(q)])
         IN IF h = "none" \/ \E i \in 1..Len(front) : front[i] = h THEN front
            ELSE Append(front, h)

\* text.match(/\b(\d+)\s*(?:unit)\b/i): the number of the first match, at
\* least 1, else the default; a number and its unit are two words
ParseCountDefault(q, units, default) == default
ParseCount(q, units, default) ==
    LET hits == {i \in 1..(Len(q) - 1) :
                    NumOf(q[i]) >= 0 /\ ToLowerCase(q[i + 1]) \in units}
    IN IF hits = {} THEN default
       ELSE LET n == NumOf(q[CHOOSE i \in hits : \A j \in hits : i <= j])
            IN IF n < 1 THEN 1 ELSE n

SimpleParseYears(q) == ParseCount(q, {"year", "years", "yr", "yrs"}, 1)
SimpleParseMailboxCount(q) == ParseCount(q, Mailboxes, 3)

\* the steps of a plan
ApiStep(path, method, body) ==
    [action |-> "api", path |-> JStr(path), method |-> JStr(method), body |-> body,
     bodyFrom |-> "none", note |-> "none"]
ComposedStep(path, method, bodyFrom, args) ==
    [action |-> "api", path |-> JStr(path), method |-> JStr(method), body |-> args,
     bodyFrom |-> bodyFrom, note |-> "none"]
NoteStep(action, note) ==
    [action |-> action, path |-> Null, method |-> Null, body |-> Null,
     bodyFrom |-> "none", note |-> note]

\* /reachinbox/i and the like, tested on the whole instruction
AppOf(q) ==
    IF \E i \in 1..Len(q) : ToLowerCase(q[i]) \in {"reachinbox"} THEN "REACHINBOX"
    ELSE IF \E i \in 1..Len(q) : ToLowerCase(q[i]) \in {"smartlead"} THEN "SMARTLEAD"
    ELSE IF \E i \in 1..Len(q) : ToLowerCase(q[i]) \in ReplyIo THEN "REPLY_IO"
    ELSE "INSTANTLY"

Or(a, b) == IF Truthy(a) THEN a ELSE b

ConnectStep(q, options) ==
    ApiStep("/v2/exports/accounts/third-party", "POST",
            [email |-> Or(options.email, JStr("placeholder@example.com")),
             password |-> Or(options.password, JStr("APP_PASSWORD")),
             app |-> AppOf(q)])

ExportToAsGiven(app, options) ==
    << NoteStep("info", "Export requires credentials"),
       ApiStep("/v2/exports/accounts/third-party", "POST",
               [email |-> options.email, password |-> options.password, app |-> app]),
       ApiStep("/v2/exports/mailboxes", "POST",
               [apps |-> <<app>>, status |-> "ACTIVE"]) >>

ExportTo(app, options) ==
    << NoteStep("info", "Export requires credentials"),
       ApiStep("/v2/exports/accounts/third-party", "POST",
               [email |-> Or(options.email, JStr("REQUIRED")),
                password |-> Or(options.password, JStr("REQUIRED")),
                app |-> app]),
       ApiStep("/v2/exports/mailboxes", "POST",
               [apps |-> <<app>>, status |-> "ACTIVE"]) >>

ExportManual(body) == ApiStep("/v2/exports/mailboxes", "POST", body)

\* q.match(/\b(?:from|in|to)\s+([a-zA-Z0-9.-]+\.[a-zA-Z]{2,})\b/i)?.[1]
ExportDomain(q) ==
    LET hits == {i \in 1..(Len(q) - 1) :
                    /\ ToLowerCase(q[i]) \in {"from", "in", "to"}
                    /\ HostOf(q[i + 1]) # "none"}
    IN IF hits = {} THEN "none"
       ELSE q[(CHOOSE i \in hits : \A j \in hits : i <= j) + 1]

\* the switch of planFromRules
StepsOf(matched, q, options) ==
    CASE matched = "LIST_WORKSPACES" -> <<ApiStep("/v2/workspaces", "GET", Null)>>
      [] matched = "LIST_DOMAINS" -> <<ApiStep("/v2/domains", "GET", Null)>>
      [] matched = "CHECK_DOMAIN" ->
           <<NoteStep("decision", "Wallet-first is irrelevant for availability")>>
           \o [i \in 1..Len(SimpleParseDomains(q)) |->
                 ApiStep("/v2/domains/available", "POST",
                         [domainName |-> SimpleParseDomains(q)[i],
                          years |-> SimpleParseYears(q)])]
      [] matched = "BUY_DOMAINS" ->
           << ApiStep("/v2/wallet/balance", "GET", Null),
              NoteStep("compute", "Check availability and price, prefer wallet"),
              ComposedStep("/v2/domains/buy", "POST", "purchaseDomains",
                           [domains |-> SimpleParseDomains(q),
                            years |-> SimpleParseYears(q)]) >>
      [] matched = "CREATE_MAILBOXES_EMPTY" ->
           << ApiStep("/v2/domains", "GET", Null),
              NoteStep("compute", "Filter domains with 0 mailboxes"),
              ComposedStep("/v2/mailboxes", "POST", "createMailboxesForZeroDomains",
                           [count |-> SimpleParseMailboxCount(q)]) >>
      [] matched = "CONNECT_EXPORT_APP" -> <<ConnectStep(q, options)>>
      [] matched = "EXPORT_TO_REACHINBOX" -> ExportTo("REACHINBOX", options)
      [] matched = "EXPORT_TO_INSTANTLY" -> ExportTo("INSTANTLY", options)
      [] matched = "EXPORT_TO_SMARTLEAD" -> ExportTo("SMARTLEAD", options)
      [] matched = "EXPORT_TO_REPLYIO" -> ExportTo("REPLY_IO", options)
      [] matched = "EXPORT_MAILBOXES" ->
           << NoteStep("info", "Export mailboxes: specify target platform"),
              ExportManual([apps |-> <<"MANUAL">>, status |-> "ACTIVE"]) >>
      [] matched = "EXPORT_CSV" ->
           <<ExportManual([apps |-> <<"MANUAL">>, status |-> "ACTIVE"])>>
      [] matched = "EXPORT_SPECIFIC" ->
           << NoteStep("info", "Export specific mailboxes requires mailbox IDs"),
              ExportManual([apps |-> <<"MANUAL">>, ids |-> <<"REQUIRED_MAILBOX_IDS">>]) >>
      [] matched = "EXPORT_BY_DOMAIN" ->
           IF ExportDomain(q) # "none"
           THEN <<ExportManual([apps |-> <<"MANUAL">>, contains |-> ExportDomain(q),
                                status |-> "ACTIVE"])>>
           ELSE << NoteStep("info", "Export by domain requires domain name"),
                   ExportManual([apps |-> <<"MANUAL">>, contains |-> "DOMAIN_NAME",
                                 status |-> "ACTIVE"]) >>
      [] matched = "CREATE_AND_CONNECT" ->
           << ApiStep("/v2/domains", "GET", Null),
              NoteStep("compute", "Filter domains with 0 mailboxes, choose target domains"),
              ComposedStep("/v2/mailboxes", "POST", "createMailboxesForZeroDomains",
                           [count |-> SimpleParseMailboxCount(q)]),
              ConnectStep(q, options) >>
      [] OTHER -> <<NoteStep("info", "No rule matched")>>

\* planFromRules(nl, options)
PlanFromRules(q, options) ==
    [strategy |-> "rules", steps |-> StepsOf(Matched(q), q, options)]

-----------------------------------------------------------------------------
(* The optional LLM planner (index.js 3656-3697).  What the reasoning        *)
(* service does is the environment's choice: fetch rejects, the content is   *)
(* not JSON, the JSON holds no steps array, or it holds one.                 *)

LlmSteps == <<ApiStep("/v2/workspaces", "GET", Null), NoteStep("info", "done")>>

LlmOutcomes ==
    {[kind |-> "network", steps |-> Null], [kind |-> "not-json", steps |-> Null],
     [kind |-> "no-steps", steps |-> Null], [kind |-> "steps", steps |-> << >>],
     [kind |-> "steps", steps |-> LlmSteps]}

LlmFailed(outcome) == outcome.kind # "steps"

\* planFromLLM(nl), given what the service did
PlanFromLLM(outcome) ==
    IF outcome.kind = "steps"
    THEN [strategy |-> "llm", steps |-> outcome.steps]
    ELSE [strategy |-> "llm-failed",
          steps |-> <<NoteStep("info", "LLM planning failed; fallback to rules.")>>]

\* llm?.steps && llm.steps.length > 0 && llm.strategy !== "llm-failed"
UseLlmAlways(llm) == TRUE
UseLlm(llm) == Len(llm.steps) > 0 /\ llm.strategy # "llm-failed"

-----------------------------------------------------------------------------
(* plan_and_execute (index.js 4723-4795).  loc holds the plan, the index i   *)
(* of the step the loop is at, results, the locals sub of the primitive an   *)
(* api step runs, and the instant wake of a pending sleep(250).  loc.started *)
(* and loc.llm are not locals of the code: started lists, per apiFetch call   *)
(* made, the index of the step that made it, llm is what the reasoning       *)
(* service did ("off" when the LLM planner is disabled).                     *)

StepPause == 250

PlanLocals(plan, llm) ==
    [plan |-> plan, i |-> 1, results |-> << >>, started |-> << >>, llm |-> llm,
     sub |-> Null, wake |-> 0]

\* the index of the first api step from i on, Len(steps) + 1 when there is
\* none: the steps before it take the else branch of the loop body
SameStep(steps, i) == i
RECURSIVE NextApi(_, _)
NextApi(steps, i) ==
    IF i > Len(steps) \/ steps[i].action = "api" THEN i ELSE NextApi(steps, i + 1)

\* results.push({ step, ok: true, data }) and results.push({ step, ok: true })
ResultRecord(step, data) == [step |-> step, ok |-> TRUE, data |-> data]

\* what the caller is sent; seen is not part of the message, it keeps the
\* handler's results and the calls it made up to the reply
PlanReply(p, req, ok, result, loc) ==
    Append(replies, [id |-> p, req |-> req, ok |-> ok, result |-> result,
                     seen |-> [started |-> loc.started, results |-> loc.results,
                               llm |-> loc.llm]])

\* const { execute = false } = input; if (!execute)
DryRunNever(req) == FALSE
DryRun(req) == ~Truthy(req.execute)

\* items = domainsData?.domains || ..., for the answers the upstream of the
\* model gives, and the filter on the mailbox count
ZeroDomains(domainsData) ==
    IF domainsData.t = "obj" /\ "domains" \in DOMAIN domainsData.o
    THEN SelectSeq(domainsData.o.domains, LAMBDA d : d.assignedMailboxesCount = 0)
    ELSE << >>

AssignArgs(sub) ==
    [path |-> JStr("/v2/mailboxes"), method |-> JStr("POST"), query |-> Null,
     headers |-> sub.headers,
     body |-> [domainId |-> sub.zero[sub.k].id, count |-> sub.count]]

\* the for loop of the execute mode from step loc0.i on, up to the apiFetch
\* of the next api step or, past the last step, the reply
PlanRun(p, t, loc0) ==
    LET steps == loc0.plan.steps
        j == NextApi(steps, loc0.i)
        loc == [loc0 EXCEPT
                  !.i = j,
                  !.results = @ \o [k \in 1..(j - loc0.i) |->
                                      ResultRecord(steps[loc0.i + k - 1], Null)],
                  !.started = IF j <= Len(steps) THEN Append(@, j) ELSE @,
                  !.wake = 0]
        headers == HeadersFor(t.req.workspaceKey, t.req.serviceProvider, CONTEXT)
    IN IF j > Len(steps)
       THEN /\ replies' = PlanReply(p, t.req, TRUE,
                             [mode |-> "execute", strategy |-> loc.plan.strategy,
                              steps |-> steps, results |-> loc.results], loc)
            /\ task' = [task EXCEPT ![p] = [t EXCEPT !.pc = "idle", !.loc = Null]]
            /\ call' = [call EXCEPT ![p] = IdleCall]
            /\ UNCHANGED <<requests, released, obs, callLog, metrics>>
       ELSE /\ UNCHANGED replies
            /\ CASE steps[j].bodyFrom = "purchaseDomains" ->
                    LET sub == PurchaseLocals(steps[j].body.domains, steps[j].body.years,
                                              TRUE, headers)
                    IN IF sub.domains = << >>
                       THEN /\ ApiFetchStart(p, BalanceArgs)
                            /\ task' = [task EXCEPT ![p] =
                                  [t EXCEPT !.pc = "plan.purchase.balance",
                                            !.loc = [loc EXCEPT !.sub = sub]]]
                       ELSE /\ ApiFetchStart(p, AvailabilityArgs(sub.domains[1], sub.years,
                                                headers.ws, headers.sp, CONTEXT))
                            /\ task' = [task EXCEPT ![p] =
                                  [t EXCEPT !.pc = "plan.purchase.available",
                                            !.loc = [loc EXCEPT !.sub = sub]]]
                 [] steps[j].bodyFrom = "createMailboxesForZeroDomains" ->
                    /\ ApiFetchStart(p, ListDomainsArgs(
                          [contains |-> Null, workspaceKey |-> headers.ws,
                           serviceProvider |-> headers.sp], CONTEXT))
                    /\ task' = [task EXCEPT ![p] =
                          [t EXCEPT !.pc = "plan.create.list",
                                    !.loc = [loc EXCEPT !.sub =
                                       [headers |-> headers, count |-> steps[j].body.count,
                                        zero |-> << >>, k |-> 1, created |-> << >>]]]]
                 [] OTHER ->
                    /\ ApiFetchStart(p, [path |-> steps[j].path,
                                         method |-> Or(steps[j].method, JStr("GET")),
                                         query |-> Null, headers |-> headers,
                                         body |-> steps[j].body])
                    /\ task' = [task EXCEPT ![p] = [t EXCEPT !.pc = "plan.api", !.loc = loc]]

\* plan = rulePlan or the LLM's plan; the dry-run reply, or the loop
PlanChosen(p, t, plan, llm) ==
    IF DryRun(t.req)
    THEN /\ replies' = PlanReply(p, t.req, TRUE,
                          [mode |-> "dry-run", strategy |-> plan.strategy,
                           steps |-> plan.steps], PlanLocals(plan, llm))
         /\ task' = [task EXCEPT ![p] = [t EXCEPT !.pc = "idle", !.loc = Null]]
         /\ UNCHANGED <<requests, released, fetchVars>>
    ELSE PlanRun(p, t, PlanLocals(plan, llm))

PlanOptions(req) == [email |-> req.email, password |-> req.password]

\* a plan_and_execute line read from stdin: the handler up to its first
\* suspension, the fetch of planFromLLM or the first apiFetch
HandlePlan(p, req) ==
    LET t == [IdleTask EXCEPT !.req = req, !.overlap = Running # {}]
        rulePlan == PlanFromRules(req.instruction, PlanOptions(req))
    IN
    /\ inbox > 0
    /\ task[p].pc = "idle"
    /\ \A q \in Procs : q < p => task[q].pc # "idle"
    /\ inbox' = inbox - 1
    /\ IF req.instruction = << >>
       THEN /\ replies' = PlanReply(p, req, FALSE, JStr("'instruction' is required"),
                                    PlanLocals(Null, "off"))
            /\ task' = [task EXCEPT ![p] = [t EXCEPT !.pc = "idle"]]
            /\ UNCHANGED <<requests, released, fetchVars>>
       ELSE IF FEATURE_FLAGS.llmPlanner
       THEN /\ task' = [task EXCEPT ![p] =
                  [t EXCEPT !.pc = "plan.llm", !.loc = PlanLocals(rulePlan, "pending")]]
            /\ UNCHANGED <<replies, requests, released, fetchVars>>
       ELSE PlanChosen(p, t, rulePlan, "off")
    /\ UNCHANGED <<now, cacheVars, cacheObs, limiter, envVars, CONTEXT, upstream>>

\* the reasoning service answers, or fails to
LlmAnswer(p, outcome) ==
    LET t == task[p]
        llm == PlanFromLLM(outcome)
    IN /\ t.pc = "plan.llm"
       /\ PlanChosen(p, t, IF UseLlm(llm) THEN llm ELSE t.loc.plan,
                     IF outcome.steps = << >> THEN "empty" ELSE outcome.kind)
       /\ UNCHANGED <<now, cacheVars, cacheObs, limiter, envVars, CONTEXT, upstream,
                      inbox>>

\* results.push({ step, ok: true, data }); await sleep(250)
StepDone(p, t, loc, data) ==
    /\ task' = [task EXCEPT ![p] =
          [t EXCEPT !.pc = "plan.sleep",
                    !.loc = [loc EXCEPT
                               !.results = Append(@, ResultRecord(loc.plan.steps[loc.i],
                                                                  data)),
                               !.sub = Null, !.wake = now + StepPause]]]
    /\ call' = [call EXCEPT ![p] = IdleCall]
    /\ UNCHANGED <<replies, requests, released, obs, callLog, metrics>>

\* an awaited call that rejects throws out of the loop, to the catch of
\* handleToolsInvoke
ThrewNever(c) == FALSE
Threw(c) == c.pc = "threw"

PlanPcs == {"plan.api", "plan.purchase.available", "plan.purchase.balance",
            "plan.purchase.buy", "plan.create.list", "plan.create.assign"}

\* the handler after an awaited apiFetch of an api step
PlanResume(p) ==
    LET t == task[p]
        loc == t.loc
        out == call[p].out
        again == [loc EXCEPT !.started = Append(@, loc.i)]
    IN
    /\ t.pc \in PlanPcs
    /\ call[p].pc \in {"returned", "threw"}
    /\ IF Threw(call[p])
       THEN /\ replies' = PlanReply(p, t.req, FALSE, out, loc)
            /\ task' = [task EXCEPT ![p] = [t EXCEPT !.pc = "idle", !.loc = Null]]
            /\ call' = [call EXCEPT ![p] = IdleCall]
            /\ UNCHANGED <<requests, released, obs, callLog, metrics>>
       ELSE CASE t.pc = "plan.api" -> StepDone(p, t, loc, out)
              [] t.pc = "plan.purchase.available" ->
                 LET sub == AfterAvailable(loc.sub, out)
                 IN /\ IF sub.i <= Len(sub.domains)
                       THEN /\ ApiFetchStart(p, AvailabilityArgs(sub.domains[sub.i],
                                     sub.years, sub.headers.ws, sub.headers.sp, CONTEXT))
                            /\ task' = [task EXCEPT ![p].loc = [again EXCEPT !.sub = sub]]
                       ELSE /\ ApiFetchStart(p, BalanceArgs)
                            /\ task' = [task EXCEPT
                                  ![p].loc = [again EXCEPT !.sub = sub],
                                  ![p].pc = "plan.purchase.balance"]
                    /\ UNCHANGED replies
              [] t.pc = "plan.purchase.balance" ->
                 LET sub == AfterBalance(loc.sub, out, upstream)
                 IN /\ ApiFetchStart(p, BuyArgs(sub))
                    /\ task' = [task EXCEPT ![p].loc = [again EXCEPT !.sub = sub],
                                            ![p].pc = "plan.purchase.buy"]
                    /\ UNCHANGED replies
              [] t.pc = "plan.purchase.buy" ->
                 StepDone(p, t, loc, PurchaseResult(loc.sub, out))
              [] t.pc = "plan.create.list" ->
                 LET sub == [loc.sub EXCEPT !.zero = ZeroDomains(out)]
                 IN IF sub.zero = << >>
                    THEN StepDone(p, t, loc, [createdCount |-> 0, details |-> << >>])
                    ELSE /\ ApiFetchStart(p, AssignArgs(sub))
                         /\ task' = [task EXCEPT ![p].loc = [again EXCEPT !.sub = sub],
                                                 ![p].pc = "plan.create.assign"]
                         /\ UNCHANGED replies
              [] t.pc = "plan.create.assign" ->
                 /\ task' = [task EXCEPT
                       ![p].pc = "plan.create.sleep",
                       ![p].loc = [loc EXCEPT
                          !.sub.created = Append(@, [domain |-> loc.sub.zero[loc.sub.k].domain,
                                                     domainId |-> loc.sub.zero[loc.sub.k].id,
                                                     response |-> out]),
                          !.wake = now + StepPause]]
                 /\ call' = [call EXCEPT ![p] = IdleCall]
                 /\ UNCHANGED <<replies, requests, released, obs, callLog, metrics>>
    /\ UNCHANGED <<now, cacheVars, cacheObs, limiter, envVars, CONTEXT, upstream, inbox>>

\* the end of a sleep(250): the next domain of createMailboxesForZeroDomains
\* or its return, or the next step of the plan
PlanWake(p) ==
    LET t == task[p]
        loc == [t.loc EXCEPT !.wake = 0]
    IN
    /\ t.pc \in {"plan.sleep", "plan.create.sleep"}
    /\ now >= t.loc.wake
    /\ IF t.pc = "plan.sleep"
       THEN PlanRun(p, t, [loc EXCEPT !.i = @ + 1])
       ELSE IF loc.sub.k < Len(loc.sub.zero)
       THEN LET sub == [loc.sub EXCEPT !.k = @ + 1]
            IN /\ ApiFetchStart(p, AssignArgs(sub))
               /\ task' = [task EXCEPT
                     ![p].loc = [loc EXCEPT !.sub = sub, !.started = Append(@, loc.i)],
                     ![p].pc = "plan.create.assign"]
               /\ UNCHANGED replies
       ELSE StepDone(p, t, loc, [createdCount |-> Len(loc.sub.created),
                                 details |-> loc.sub.created])
    /\ UNCHANGED <<now, cacheVars, cacheObs, limiter, envVars, CONTEXT, upstream, inbox>>

\* time passes to the next timer: a sleep in apiFetch or a sleep(250)
Pausing == {p \in Procs : task[p].pc \in {"plan.sleep", "plan.create.sleep"}}
Timers == {call[p].wake : p \in Sleeping} \cup {task[p].loc.wake : p \in Pausing}

PlanTick ==
    /\ Timers # {}
    /\ \A w \in Timers : now < w
    /\ now' = CHOOSE w \in Timers : \A v \in Timers : w <= v
    /\ UNCHANGED <<rateVars, cacheVars, cacheObs, envVars, CONTEXT, fetchVars, serverVars>>

-----------------------------------------------------------------------------
(* The plan harness: one plan_and_execute request, dry or executed, to a     *)
(* server some time after its start, against the upstream of the model with  *)
(* a few answers replaced by a fault or lost.                                *)

ExecMaxRetries == 1
ExecMaxFaults == 1
ExecWindowUsed == 1

ExecInstructions ==
    { << >>,
      <<"hello">>,
      <<"list", "domains">>,
      <<"check", "domain", "Example.com", "available">>,
      <<"buy", "domain", "test.io">>,
      <<"create", "3", "mailboxes", "on", "zero", "domains">>,
      <<"export", "mailboxes">>,
      <<"setup", "2", "mailboxes", "and", "connect">> }

PlanRequests(instructions, executes) ==
    {[tool |-> "plan_and_execute", instruction |-> q, execute |-> e,
      email |-> Null, password |-> Null, workspaceKey |-> Null,
      serviceProvider |-> Null] : q \in instructions, e \in executes}

\* execute: true, false, or left out
ExecRequests == PlanRequests(ExecInstructions, {JBool(TRUE), JBool(FALSE), Null})

\* what an earlier list_domains call left in the cache
CachedDomains ==
    <<[key |-> <<"GET", "/v2/domains", << >>>>,
       item |-> [value |-> DomainsOf(JStr("w1")), expires |-> DefaultTtl]]>>

InitExec ==
    /\ now = 0
    /\ limiter = [maxRequests |-> DefaultMaxRequests, windowMs |-> DefaultWindowMs]
    /\ requests = [i \in 1..ExecWindowUsed |-> 0]
    /\ released = requests
    /\ apiKey \in {JStr("key"), Null}
    /\ FEATURE_FLAGS \in [llmPlanner : BOOLEAN]
    /\ CONFIG \in [maxRetries : 0..ExecMaxRetries, enableCaching : {TRUE}]
    /\ cacheCfg = [maxSize |-> DefaultMaxSize, ttl |-> DefaultTtl]
    /\ cache \in {<< >>, CachedDomains}
    /\ InitCacheObsNone /\ InitFetchIdle
    /\ CONTEXT = [workspaceKey |-> JStr("w1"), serviceProvider |-> JStr("GOOGLE")]
    /\ task = [p \in Procs |-> IdleTask]
    /\ upstream = [balance |-> 100, faults |-> ExecMaxFaults, populated |-> {}]
    /\ inbox = 1
    /\ replies = << >>

NextExec ==
    \/ \E p \in Procs, req \in ExecRequests : HandlePlan(p, req)
    \/ \E p \in Procs, outcome \in LlmOutcomes : LlmAnswer(p, outcome)
    \/ \E p \in Procs : ApiFetchResume(p)
    \/ \E p \in Procs : UpstreamZapmail(p)
    \/ \E p \in Procs, resp \in Faults : UpstreamFault(p, resp)
    \/ \E p \in Procs, err \in NetworkErrors : UpstreamSilent(p, err)
    \/ \E p \in Procs : ApiFetchWake(p)
    \/ \E p \in Procs : PlanResume(p)
    \/ \E p \in Procs : PlanWake(p)
    \/ PlanTick

SpecExec == InitExec /\ [][NextExec]_vars

-----------------------------------------------------------------------------
(* The tool create_mailboxes_for_zero_domains (index.js 4562-4572) around     *)
(* createMailboxesForZeroDomains (index.js 2952-3006), called a few times in  *)
(* succession: a call starts when the reply of the one before is out.         *)

CreateMaxCalls == 2
CreateMaxNow == 310000
DefaultCountPerDomain == 3

CreateRequests ==
    {[tool |-> "create_mailboxes_for_zero_domains", countPerDomain |-> DefaultCountPerDomain,
      workspaceKey |-> w, serviceProvider |-> Null] : w \in {Null, JStr("w2")}}

HandleCreate(p, req) ==
    LET headers == HeadersFor(req.workspaceKey, req.serviceProvider, CONTEXT)
    IN /\ inbox > 0
       /\ Running = {}
       /\ p = 1
       /\ inbox' = inbox - 1
       /\ ApiFetchStart(p, ListDomainsArgs(
             [contains |-> Null, workspaceKey |-> headers.ws,
              serviceProvider |-> headers.sp], CONTEXT))
       /\ task' = [task EXCEPT ![p] =
             [IdleTask EXCEPT !.req = req, !.pc = "create.list",
                              !.loc = [headers |-> headers, count |-> req.countPerDomain,
                                       zero |-> << >>, k |-> 1, created |-> << >>,
                                       wake |-> 0]]]
       /\ UNCHANGED <<now, limiter, cacheCfg, cacheObs, envVars, CONTEXT, cache, replies,
                      upstream>>

\* after the awaited listDomains or invokeSlug
CreateResume(p) ==
    LET t == task[p]
        out == call[p].out
        done == [t EXCEPT !.pc = "idle", !.loc = Null]
    IN
    /\ t.pc \in {"create.list", "create.assign"}
    /\ call[p].pc \in {"returned", "threw"}
    /\ IF call[p].pc = "threw"
       THEN /\ replies' = SendError(p, t.req, out)
            /\ task' = [task EXCEPT ![p] = done]
            /\ call' = [call EXCEPT ![p] = IdleCall]
            /\ UNCHANGED <<requests, released, obs, callLog, metrics>>
       ELSE IF t.pc = "create.list"
       THEN LET sub == [t.loc EXCEPT !.zero = ZeroDomains(out)]
            IN IF sub.zero = << >>
               THEN /\ replies' = SendResult(p, [createdCount |-> 0, details |-> << >>])
                    /\ task' = [task EXCEPT ![p] = done]
                    /\ call' = [call EXCEPT ![p] = IdleCall]
                    /\ UNCHANGED <<requests, released, obs, callLog, metrics>>
               ELSE /\ ApiFetchStart(p, AssignArgs(sub))
                    /\ task' = [task EXCEPT ![p].loc = sub, ![p].pc = "create.assign"]
                    /\ UNCHANGED replies
       ELSE /\ task' = [task EXCEPT
                  ![p].pc = "create.sleep",
                  ![p].loc = [t.loc EXCEPT
                     !.created = Append(@, [domain |-> t.loc.zero[t.loc.k].domain,
                                            domainId |-> t.loc.zero[t.loc.k].id,
                                            response |-> out]),
                     !.wake = now + StepPause]]
            /\ call' = [call EXCEPT ![p] = IdleCall]
            /\ UNCHANGED <<replies, requests, released, obs, callLog, metrics>>
    /\ UNCHANGED <<now, cacheVars, cacheObs, limiter, envVars, CONTEXT, upstream, inbox>>

\* the end of the sleep(250) after a domain: the next domain, or the result
CreateWake(p) ==
    LET t == task[p]
    IN
    /\ t.pc = "create.sleep"
    /\ now >= t.loc.wake
    /\ IF t.loc.k < Len(t.loc.zero)
       THEN LET sub == [t.loc EXCEPT !.k = @ + 1, !.wake = 0]
            IN /\ ApiFetchStart(p, AssignArgs(sub))
               /\ task' = [task EXCEPT ![p].loc = sub, ![p].pc = "create.assign"]
               /\ UNCHANGED replies
       ELSE /\ replies' = SendResult(p, [createdCount |-> Len(t.loc.created),
                                         details |-> t.loc.created])
            /\ task' = [task EXCEPT ![p] = [t EXCEPT !.pc = "idle", !.loc = Null]]
            /\ UNCHANGED <<call, requests, released, obs, callLog, metrics>>
    /\ UNCHANGED <<now, cacheVars, cacheObs, limiter, envVars, CONTEXT, upstream, inbox>>

\* time passes: to the end of a sleep(250), or, between two calls, past the
\* ttl of the cache
CreateTick ==
    /\ \/ \E p \in Procs : /\ task[p].pc = "create.sleep"
                            /\ now < task[p].loc.wake
                            /\ now' = task[p].loc.wake
       \/ /\ Running = {}
          /\ inbox > 0
          /\ now + cacheCfg.ttl + 1 <= CreateMaxNow
          /\ now' = now + cacheCfg.ttl + 1
    /\ UNCHANGED <<rateVars, cacheVars, cacheObs, envVars, CONTEXT, fetchVars, serverVars>>

InitCreate ==
    /\ now = 0
    /\ limiter = [maxRequests |-> DefaultMaxRequests, windowMs |-> DefaultWindowMs]
    /\ requests = << >>
    /\ released = requests
    /\ apiKey = JStr("key")
    /\ FEATURE_FLAGS = [llmPlanner |-> FALSE]
    /\ CONFIG = [maxRetries |-> DefaultMaxRetries, enableCaching |-> TRUE]
    /\ InitCacheDefault /\ InitCacheObsNone /\ InitFetchIdle
    /\ CONTEXT \in {[workspaceKey |-> w, serviceProvider |-> JStr("GOOGLE")]
                       : w \in Workspaces}
    /\ task = [p \in Procs |-> IdleTask]
    /\ upstream = [balance |-> 0, faults |-> 0, populated |-> {}]
    /\ inbox = CreateMaxCalls
    /\ replies = << >>

NextCreate ==
    \/ \E p \in Procs, req \in CreateRequests : HandleCreate(p, req)
    \/ \E p \in Procs : CreateResume(p)
    \/ \E p \in Procs : ApiFetchResume(p)
    \/ \E p \in Procs : UpstreamZapmail(p)
    \/ \E p \in Procs : CreateWake(p)
    \/ CreateTick

SpecCreate == InitCreate /\ [][NextCreate]_vars

\* the domain with this id has no mailbox upstream
ZeroUpstream(id, up) ==
    /\ id \notin up.populated
    /\ \E w \in Workspaces : \E i \in DOMAIN DomainList(w) :
          /\ DomainList(w)[i].id = id
          /\ DomainList(w)[i].assignedMailboxesCount = 0

\* C38: a create request of createMailboxesForZeroDomains is for a domain
\* that has no mailbox upstream when the request is sent; so a second call
\* right after a first sends none for a domain the first gave mailboxes.
C38_CreatesOnlyOnZeroDomains ==
    \A p \in Procs :
        (call[p].pc = "fetch" /\ Assigns(call[p].req))
            => ZeroUpstream(call[p].req.body.domainId, upstream)

-----------------------------------------------------------------------------
(* The tool bulk_update_mailboxes (index.js 4921-5004): one request with a    *)
(* few updates, against an upstream that fails some of the PUTs.              *)

BulkMaxUpdates == 2
BulkMaxFaults == 1
BulkMaxRetries == 1
DefaultRateLimitDelay == 1000

\* an element of `updates`: JSON null, or an object with these fields
MailboxUpdate(mailboxId, firstName) ==
    [t |-> "obj", mailboxId |-> mailboxId, firstName |-> firstName, lastName |-> Null,
     username |-> Null]

BulkElements ==
    {Null,
     MailboxUpdate(JStr("m1"), JStr("Ann")),
     MailboxUpdate(JStr("m2"), Null),
     MailboxUpdate(Null, JStr("Ann")),
     MailboxUpdate(JStr("m3"), JNum(7))}

BulkRequests ==
    {[tool |-> "bulk_update_mailboxes", updates |-> u, workspaceKey |-> Null,
      serviceProvider |-> Null]
        : u \in UNION {[1..n -> BulkElements] : n \in 0..BulkMaxUpdates}}

\* reading a property of null: the TypeError of `update.mailboxId`
NullPropertyError == [name |-> "TypeError", code |-> Null, details |-> Null]
NoFieldsError == "No valid update fields provided"

\* the body of the try up to the apiFetch: the element is null ("abort": the
\* try throws and the catch, reading update.mailboxId, throws again), fails
\* a validation ("error"), names no field ("empty"), or is sent ("put")
UpdateCheck(update) ==
    IF update = Null THEN [kind |-> "abort", error |-> NullPropertyError]
    ELSE LET fields == <<"firstName", "lastName", "username">>
             Bad(k) == Truthy(update[fields[k]])
                       /\ ValidateString(update[fields[k]], fields[k]) # Null
         IN IF ValidateString(update.mailboxId, "mailboxId") # Null
            THEN [kind |-> "error", error |-> ValidateString(update.mailboxId, "mailboxId")]
            ELSE IF \E k \in 1..3 : Bad(k)
            THEN LET k == CHOOSE j \in 1..3 : Bad(j) /\ \A h \in 1..(j - 1) : ~Bad(h)
                 IN [kind |-> "error",
                     error |-> ValidateString(update[fields[k]], fields[k])]
            ELSE IF \A k \in 1..3 : ~Truthy(update[fields[k]])
            THEN [kind |-> "empty", error |-> NoFieldsError]
            ELSE [kind |-> "put", error |-> Null]

BulkArgs(update, headers) ==
    [path |-> JStr("/v2/mailboxes"), method |-> JStr("PUT"), query |-> Null,
     headers |-> headers,
     body |-> [mailboxData |-> <<[mailboxId |-> update.mailboxId,
                                  firstName |-> update.firstName,
                                  lastName |-> update.lastName,
                                  username |-> update.username]>>]]

\* the for loop from element i (counted from 1) over the elements that end
\* without an await: up to an element that is sent, one that leaves the loop
\* with an exception, or the end of the list
RECURSIVE BulkScan(_, _, _)
BulkScan(updates, i, errors) ==
    IF i > Len(updates) THEN [i |-> i, errors |-> errors, abort |-> FALSE]
    ELSE LET c == UpdateCheck(updates[i])
         IN IF c.kind = "abort" THEN [i |-> i, errors |-> errors, abort |-> TRUE]
            ELSE IF c.kind = "put" THEN [i |-> i, errors |-> errors, abort |-> FALSE]
            ELSE BulkScan(updates, i + 1,
                          Append(errors, [index |-> i - 1,
                                          mailboxId |-> IF c.kind = "empty" THEN Null
                                                        ELSE updates[i].mailboxId,
                                          error |-> c.error]))

BulkRun(p, t, loc0) ==
    LET s == BulkScan(loc0.updates, loc0.i, loc0.errors)
        loc == [loc0 EXCEPT !.i = s.i, !.errors = s.errors]
        idle == [t EXCEPT !.pc = "idle", !.loc = Null]
    IN IF s.abort
       THEN /\ replies' = SendError(p, t.req, NullPropertyError)
            /\ task' = [task EXCEPT ![p] = idle]
            /\ call' = [call EXCEPT ![p] = IdleCall]
            /\ UNCHANGED <<requests, released, obs, callLog, metrics>>
       ELSE IF s.i > Len(loc.updates)
       THEN /\ replies' = Append(replies,
                  [id |-> p, req |-> t.req, ok |-> TRUE,
                   result |-> [total |-> Len(loc.updates),
                               successful |-> Len(loc.results),
                               failed |-> Len(loc.errors),
                               results |-> loc.results,
                               errors |-> loc.errors]])
            /\ task' = [task EXCEPT ![p] = idle]
            /\ call' = [call EXCEPT ![p] = IdleCall]
            /\ UNCHANGED <<requests, released, obs, callLog, metrics>>
       ELSE /\ ApiFetchStart(p, BulkArgs(loc.updates[loc.i],
                      HeadersFor(t.req.workspaceKey, t.req.serviceProvider, CONTEXT)))
            /\ task' = [task EXCEPT ![p] = [t EXCEPT !.pc = "bulk.put", !.loc = loc]]
            /\ UNCHANGED replies

HandleBulk(p, req) ==
    LET t == [IdleTask EXCEPT !.req = req]
    IN /\ inbox > 0
       /\ task[p].pc = "idle"
       /\ \A q \in Procs : q < p => task[q].pc # "idle"
       /\ inbox' = inbox - 1
       /\ IF req.updates = << >>
          THEN /\ replies' = SendError(p, req, ValidationError("updates", req.updates))
               /\ task' = [task EXCEPT ![p] = t]
               /\ UNCHANGED <<requests, released, fetchVars>>
          ELSE BulkRun(p, t, [updates |-> req.updates, i |-> 1, results |-> << >>,
                              errors |-> << >>, wake |-> 0])
       /\ UNCHANGED <<now, limiter, cacheVars, cacheObs, envVars, CONTEXT, upstream>>

\* after the awaited apiFetch: the entry of the element, then the sleep
\* between updates or, after a failure or the last element, the loop goes on
BulkResume(p) ==
    LET t == task[p]
        loc == t.loc
        update == loc.updates[loc.i]
    IN
    /\ t.pc = "bulk.put"
    /\ call[p].pc \in {"returned", "threw"}
    /\ IF call[p].pc = "threw"
       THEN BulkRun(p, t, [loc EXCEPT
               !.errors = Append(@, [index |-> loc.i - 1, mailboxId |-> update.mailboxId,
                                     error |-> call[p].out]),
               !.i = @ + 1])
       ELSE LET done == [loc EXCEPT
                   !.results = Append(@, [index |-> loc.i - 1,
                                          mailboxId |-> update.mailboxId,
                                          status |-> "success", data |-> call[p].out])]
            IN IF loc.i < Len(loc.updates)
               THEN /\ task' = [task EXCEPT ![p].pc = "bulk.sleep",
                                            ![p].loc = [done EXCEPT
                                               !.wake = now + DefaultRateLimitDelay]]
                    /\ call' = [call EXCEPT ![p] = IdleCall]
                    /\ UNCHANGED <<replies, requests, released, obs, callLog, metrics>>
               ELSE BulkRun(p, t, [done EXCEPT !.i = @ + 1])
    /\ UNCHANGED <<now, limiter, cacheVars, cacheObs, envVars, CONTEXT, upstream, inbox>>

\* the end of sleep(CONFIG.rateLimitDelay)
BulkWake(p) ==
    /\ task[p].pc = "bulk.sleep"
    /\ now >= task[p].loc.wake
    /\ BulkRun(p, task[p], [task[p].loc EXCEPT !.i = @ + 1, !.wake = 0])
    /\ UNCHANGED <<now, limiter, cacheVars, cacheObs, envVars, CONTEXT, upstream, inbox>>

BulkTimers == {call[p].wake : p \in Sleeping}
              \cup {task[p].loc.wake : p \in {q \in Procs : task[q].pc = "bulk.sleep"}}

BulkTick ==
    /\ BulkTimers # {}
    /\ \A w \in BulkTimers : now < w
    /\ now' = CHOOSE w \in BulkTimers : \A v \in BulkTimers : w <= v
    /\ UNCHANGED <<rateVars, cacheVars, cacheObs, envVars, CONTEXT, fetchVars, serverVars>>

InitBulk ==
    /\ now = 0
    /\ limiter = [maxRequests |-> DefaultMaxRequests, windowMs |-> DefaultWindowMs]
    /\ requests = << >>
    /\ released = requests
    /\ apiKey = JStr("key")
    /\ FEATURE_FLAGS = [llmPlanner |-> FALSE]
    /\ CONFIG \in [maxRetries : 0..BulkMaxRetries, enableCaching : {TRUE}]
    /\ InitCacheDefault /\ InitCacheObsNone /\ InitFetchIdle
    /\ CONTEXT = [workspaceKey |-> JStr("w1"), serviceProvider |-> JStr("GOOGLE")]
    /\ task = [p \in Procs |-> IdleTask]
    /\ upstream \in {[balance |-> 0, faults |-> f, populated |-> {}]
                        : f \in 0..BulkMaxFaults}
    /\ inbox = 1
    /\ replies = << >>

NextBulk ==
    \/ inbox > 0 /\ \E p \in Procs, req \in BulkRequests : HandleBulk(p, req)
    \/ \E p \in Procs : BulkResume(p)
    \/ \E p \in Procs : ApiFetchResume(p)
    \/ \E p \in Procs : UpstreamZapmail(p)
    \/ \E p \in Procs, resp \in Faults : UpstreamFault(p, resp)
    \/ \E p \in Procs : ApiFetchWake(p)
    \/ \E p \in Procs : BulkWake(p)
    \/ BulkTick

SpecBulk == InitBulk /\ [][NextBulk]_vars

\* the indexes of the entries of a list of results or errors
IndexesOf(entries) == [k \in DOMAIN entries |-> entries[k].index]
Increasing(f) == \A a, b \in DOMAIN f : a < b => f[a] < f[b]

\* C39: the reply to bulk_update_mailboxes with a non-empty list is a result
\* in which every element has exactly one entry, in results or in errors,
\* each list in index order, and successful + failed = total = the number
\* of elements: no single element makes the call end with an error.
C39_EveryUpdateAccounted ==
    \A r \in DOMAIN replies :
        (replies[r].req.tool = "bulk_update_mailboxes" /\ replies[r].req.updates # << >>)
            => /\ replies[r].ok
               /\ LET out == replies[r].result
                      n == Len(replies[r].req.updates)
                      all == IndexesOf(out.results) \o IndexesOf(out.errors)
                  IN /\ out.total = n
                     /\ out.successful = Len(out.results)
                     /\ out.failed = Len(out.errors)
                     /\ out.successful + out.failed = out.total
                     /\ \A i \in 0..(n - 1) :
                           Cardinality({k \in DOMAIN all : all[k] = i}) = 1
                     /\ Increasing(IndexesOf(out.results))
                     /\ Increasing(IndexesOf(out.errors))

-----------------------------------------------------------------------------
(* Claims about plan_and_execute (SpecExec).                                 *)

Range(f) == {f[k] : k \in DOMAIN f}
InOrder(f) == \A a, b \in DOMAIN f : a < b => f[a] <= f[b]

\* the handlers inside the loop of the execute mode
Looping == {p \in Procs : task[p].pc \in PlanPcs \cup {"plan.sleep", "plan.create.sleep"}}

\* the replies to executed plans that ran to their end
Completed == {k \in DOMAIN replies :
                 replies[k].ok /\ replies[k].result.mode = "execute"}

\* C12: in execute mode the steps are processed in array order, one at a
\* time.  While the loop runs, the calls made so far belong to api steps in
\* nondecreasing order, the latest to the step the loop is at; every earlier
\* step has its record, and the step's own record exists only once its calls
\* have ended (no call is in flight while the loop sleeps after a step).  On
\* normal completion results holds one record per step, in step order, each
\* ok; the record of a non-api step has no data and the step made no call.
C12_StepsInOrder ==
    /\ \A p \in Looping :
          LET loc == task[p].loc
              steps == loc.plan.steps
          IN /\ steps[loc.i].action = "api"
             /\ loc.started # << >>
             /\ loc.started[Len(loc.started)] = loc.i
             /\ InOrder(loc.started)
             /\ \A k \in Range(loc.started) : steps[k].action = "api"
             /\ Len(loc.results) = IF task[p].pc = "plan.sleep" THEN loc.i ELSE loc.i - 1
             /\ \A k \in DOMAIN loc.results :
                   loc.results[k].step = steps[k] /\ loc.results[k].ok
             /\ task[p].pc \in {"plan.sleep", "plan.create.sleep"} => call[p].pc = "none"
             /\ task[p].pc \in PlanPcs => call[p].pc # "none"
    /\ \A r \in Completed :
          LET steps == replies[r].result.steps
              results == replies[r].result.results
              started == replies[r].seen.started
          IN /\ Len(results) = Len(steps)
             /\ InOrder(started)
             /\ \A k \in DOMAIN steps :
                   /\ results[k].step = steps[k]
                   /\ results[k].ok
                   /\ steps[k].action = "api" <=> k \in Range(started)
                   /\ steps[k].action # "api" => results[k].data = Null
    /\ \A p \in Procs : task[p].pc \notin PlanPcs => call[p].pc = "none"

\* a plan of four steps, one of them a note, ran to its end, its composed
\* step having made several calls
C12_Witness ==
    \E r \in Completed :
        /\ Len(replies[r].result.results) = 4
        /\ \E k \in 1..4 : replies[r].result.steps[k].action # "api"
        /\ Len(replies[r].seen.started) > 3

\* the replies that report the failure of a step
Failed == {k \in DOMAIN replies :
              ~replies[k].ok /\ replies[k].req.instruction # << >>}

\* C13: when a call of the api step at index i throws, the plan makes no
\* further call and the request ends with an error carrying that failure.
\* A call that threw is the last call made; once the handler has taken the
\* exception the request has been answered with the error the call threw,
\* no step after i has a record or a call, and handler and executor are idle
\* from then on.
C13_FailingStepHalts ==
    /\ \A k \in DOMAIN callLog :
          callLog[k].kind = "threw" =>
             /\ k = Len(callLog)
             /\ \A p \in Procs : call[p].pc \in {"none", "threw"}
             /\ call[callLog[k].p].pc = "none" =>
                   \E r \in Failed : replies[r].result = callLog[k].out
    /\ \A r \in Failed :
          LET seen == replies[r].seen
              i == seen.started[Len(seen.started)]
          IN /\ callLog[Len(callLog)].kind = "threw"
             /\ replies[r].result = callLog[Len(callLog)].out
             /\ \A k \in Range(seen.started) : k <= i
             /\ Len(seen.results) = i - 1
             /\ \A p \in Procs : task[p].pc = "idle" /\ call[p].pc = "none"

\* the third step of a plan failed after the first had made its call
C13_Witness ==
    \E r \in Failed :
        /\ replies[r].seen.started[Len(replies[r].seen.started)] = 3
        /\ Len(replies[r].seen.started) > 1
        /\ replies[r].result \in NetworkErrors

\* the result records a reply carries: sendResult of the execute mode sends
\* results, sendError(id, -32000, err.message) sends a code and a message
ReportedResults(reply) ==
    IF reply.ok /\ reply.result.mode = "execute" THEN reply.result.results ELSE << >>

\* C14: when a step of an executing plan fails, the records collected for
\* the steps completed before the failure are reported to the caller with
\* the failure.
C14_PartialResultsReported ==
    \A r \in Failed : ReportedResults(replies[r]) = replies[r].seen.results

\* a plan_and_execute request with execute false or left out
IsDry(req) ==
    /\ req # Null
    /\ req.tool = "plan_and_execute"
    /\ req.instruction # << >>
    /\ req.execute \in {Null, JBool(FALSE)}

\* the steps of the plan chosen for a request, given what the reasoning
\* service did
ChosenSteps(req, llm) ==
    IF llm = "steps" THEN LlmSteps
    ELSE PlanFromRules(req.instruction, PlanOptions(req)).steps

\* C15: a dry run returns the steps of the plan and makes no call through
\* apiFetch: no step of its handler changes the cache, the rate window,
\* CONTEXT or the state of the request executor, and its reply is the plan.
C15_DryRunTouchesNothing ==
    /\ [][\A p \in Procs :
             (task'[p] # task[p] /\ IsDry(task'[p].req))
                => UNCHANGED <<cache, requests, released, CONTEXT, call, obs, callLog>>]_vars
    /\ [](\A r \in DOMAIN replies :
             IsDry(replies[r].req)
                => /\ replies[r].ok
                   /\ replies[r].result.mode = "dry-run"
                   /\ replies[r].result.steps =
                         ChosenSteps(replies[r].req, replies[r].seen.llm)
                   /\ replies[r].seen.started = << >>
                   /\ callLog = << >>
                   /\ \A p \in Procs : obs[p] = NoObs /\ call[p] = IdleCall)

\* a dry run of a plan with api steps has been answered by a server with a
\* filled cache and a rate window in use
C15_Witness ==
    \E r \in DOMAIN replies :
        /\ IsDry(replies[r].req)
        /\ \E k \in DOMAIN replies[r].result.steps :
              replies[r].result.steps[k].action = "api"
        /\ cache # << >>
        /\ requests # << >>
        /\ Truthy(CONTEXT.workspaceKey)

\* what the reasoning service did when it failed: fetch rejected, the content
\* was not JSON, the JSON had no steps array
LlmFailures == {"network", "not-json", "no-steps"}

RuleSteps(req) == PlanFromRules(req.instruction, PlanOptions(req)).steps

\* C16: with the LLM planner enabled and the reasoning service failing, the
\* request raises no error for that failure and the steps returned (dry run)
\* or executed are the steps of the rule-based plan of the instruction: the
\* plan a handler runs is the rule plan, a reply that is not an error holds
\* the rule plan's steps, and an error reply reports a step's call that threw.
C16_LlmFailureFallsBack ==
    /\ \A p \in Looping :
          task[p].loc.llm \in LlmFailures
             => task[p].loc.plan.steps = RuleSteps(task[p].req)
    /\ \A r \in DOMAIN replies :
          replies[r].seen.llm \in LlmFailures
             => /\ replies[r].ok => replies[r].result.steps = RuleSteps(replies[r].req)
                /\ \A k \in DOMAIN replies[r].seen.results :
                      replies[r].seen.results[k].step = RuleSteps(replies[r].req)[k]
                /\ ~replies[r].ok
                      => /\ replies[r].seen.started # << >>
                         /\ callLog[Len(callLog)].kind = "threw"
                         /\ replies[r].result = callLog[Len(callLog)].out

\* after a reasoning service that answered with text that is not JSON, a
\* plan of several steps was executed to its end
C16_Witness ==
    \E r \in DOMAIN replies :
        /\ replies[r].seen.llm = "not-json"
        /\ replies[r].ok
        /\ replies[r].result.mode = "execute"
        /\ Len(replies[r].result.steps) > 1
        /\ FEATURE_FLAGS.llmPlanner

\* C17: with the LLM planner enabled and the reasoning service failing, the
\* strategy returned to the caller is the failed marker, neither "rules" nor
\* "llm".
C17_StrategyMarksDegradation ==
    \A r \in DOMAIN replies :
        (replies[r].seen.llm \in LlmFailures /\ replies[r].ok)
           => replies[r].result.strategy = "llm-failed"

-----------------------------------------------------------------------------
(* The planner harness: planFromRules applied, through a dry run of          *)
(* plan_and_execute with the LLM planner disabled, to every instruction of   *)
(* up to PlanMaxWords words of a vocabulary and to some longer sentences.    *)

PlanMaxWords == 3

PlanWords == {"list", "check", "buy", "create", "add", "export", "connect",
              "mailboxes", "domains", "zero", "available", "instantly", "workspaces",
              "example.com"}

\* "create 3 mailboxes on zero domains and connect to instantly"
CreateAndConnectSentence ==
    <<"create", "3", "mailboxes", "on", "zero", "domains", "and", "connect", "to",
      "instantly">>
\* "check if example.com is available for 1 year"
AvailabilitySentence ==
    <<"check", "if", "example.com", "is", "available", "for", "1", "year">>

PlanSentences ==
    { CreateAndConnectSentence, AvailabilitySentence,
      <<"setup", "2", "mailboxes", "and", "connect">>,
      <<"setup", "inboxes", "then", "link", "reachinbox">>,
      <<"Create", "mailboxes", "zero", "domains">>,
      <<"add", "0", "inboxes", "to", "zero", "domains">>,
      <<"is", "the", "domain", "test.io", "available">>,
      <<"check", "domains", "Example.com", "example.com", "test.io", "available",
        "for", "0", "years">>,
      <<"buy", "domain", "example.com", "test.io", "for", "2", "yrs">>,
      <<"export", "specific", "mailboxes">>,
      <<"send", "certain", "emails">>,
      <<"send", "domain", "emails", "from", "example.com">>,
      <<"send", "domains", "emails">>,
      <<"export", "csv">>,
      <<"send", "reachinbox">>,
      <<"transfer", "smartlead">>,
      <<"send", "reply.io">>,
      <<"link", "smartlead">>,
      <<"link", "replyio">>,
      <<"hello", "mailbox", "connect">> }

RECURSIVE WordSeqs(_)
WordSeqs(n) ==
    IF n = 0 THEN {<< >>}
    ELSE WordSeqs(n - 1)
         \cup {Append(q, w) : q \in {r \in WordSeqs(n - 1) : Len(r) = n - 1},
                              w \in PlanWords}

PlanInstructions == (WordSeqs(PlanMaxWords) \ {<< >>}) \cup PlanSentences

\* the instructions planned with an email, a password, both or neither
CredentialInstructions ==
    { <<"connect", "instantly">>, <<"export", "instantly">>,
      <<"setup", "2", "mailboxes", "and", "connect">>,
      <<"send", "reachinbox">>, <<"transfer", "smartlead">>, <<"send", "reply.io">>,
      <<"export", "mailboxes", "to", "replyio">> }

DryRequests ==
    PlanRequests(PlanInstructions, {JBool(FALSE)})
    \cup {[tool |-> "plan_and_execute", instruction |-> q, execute |-> Null,
           email |-> e, password |-> w, workspaceKey |-> Null, serviceProvider |-> Null]
            : q \in CredentialInstructions,
              e \in {Null, JStr(""), JStr("me@test.io")},
              w \in {Null, JStr("secret")}}

InitDry ==
    /\ now = 0
    /\ InitRateDefault /\ InitEnvDefault /\ InitCacheDefault /\ InitCacheObsNone
    /\ InitContextDefault /\ InitFetchIdle
    /\ task = [p \in Procs |-> IdleTask]
    /\ upstream = [balance |-> 0, faults |-> 0, populated |-> {}]
    /\ inbox = 1
    /\ replies = << >>

NextDry == inbox > 0 /\ \E p \in Procs, req \in DryRequests : HandlePlan(p, req)

SpecDry == InitDry /\ [][NextDry]_vars

-----------------------------------------------------------------------------
(* Claims about planFromRules (SpecDry).                                     *)

\* the entries of INTENT_PATTERNS whose test matches q
Hits(q) == {i \in DOMAIN INTENT_PATTERNS : MatchSeq(q, INTENT_PATTERNS[i].test)}
First(S) == CHOOSE i \in S : \A j \in S : i <= j

NoRuleMatched == <<NoteStep("info", "No rule matched")>>

AsksCreateAndConnect(q) ==
    /\ MatchSeq(q, <<{"create", "add", "setup"}, Mailboxes, {"0", "zero"}, Domains>>)
    /\ MatchSeq(q, <<Mailboxes, {"connect", "link"}>>)

HasConnectStep(steps) ==
    \E k \in DOMAIN steps :
        steps[k].action = "api" /\ steps[k].path = JStr("/v2/exports/accounts/third-party")

\* C19: "create 3 mailboxes on zero domains and connect to instantly" yields
\* the compound sequence (domain list read, compute note, create step,
\* connect step), and every instruction that asks to create mailboxes on
\* zero-mailbox domains and to connect an export app yields a plan with the
\* connect step.
C19_CreateAndConnectIsCompound ==
    \A r \in DOMAIN replies :
        LET req == replies[r].req
            steps == replies[r].result.steps
        IN /\ req.instruction = CreateAndConnectSentence
                => steps = StepsOf("CREATE_AND_CONNECT", req.instruction, PlanOptions(req))
           /\ AsksCreateAndConnect(req.instruction) => HasConnectStep(steps)

\* an instruction that asks whether a domain named by its hostname is
\* available
AsksAvailability(q) ==
    /\ MatchSeq(q, <<{"check", "is", "are"}, {"available"}>>)
    /\ SimpleParseDomains(q) # << >>

AvailabilitySteps(steps) ==
    SelectSeq(steps, LAMBDA step :
        step.action = "api" /\ step.path = JStr("/v2/domains/available"))

\* C20: the dry run of "check if example.com is available for 1 year" holds
\* one availability-check api step with body {domainName: "example.com",
\* years: 1}, and an availability question naming domains by hostname yields
\* one availability-check step per extracted domain.
C20_AvailabilityByHostname ==
    \A r \in DOMAIN replies :
        LET req == replies[r].req
            checks == AvailabilitySteps(replies[r].result.steps)
        IN /\ req.instruction = AvailabilitySentence
                => /\ Len(checks) = 1
                   /\ checks[1].body = [domainName |-> "example.com", years |-> 1]
           /\ AsksAvailability(req.instruction)
                => /\ Len(checks) = Len(SimpleParseDomains(req.instruction))
                   /\ \A k \in DOMAIN checks :
                         checks[k].body.domainName = SimpleParseDomains(req.instruction)[k]

-----------------------------------------------------------------------------
(* Slug resolution (index.js 2746-2816).  A documentation page is the        *)
(* sequence of its lines, a line the sequence of its tokens, a token what    *)
(* whitespace separates:                                                     *)
(*   [k |-> "verb", m]       an HTTP verb in any case, as "GET" or "post"    *)
(*   [k |-> "path", rest]    "/" and rest, rest not empty, as "/v2/domains"  *)
(*                           or "/api/v2/domains" (api says which)           *)
(*   [k |-> "key", rest]     a path followed by a colon, as "/v2/users:"     *)
(*   [k |-> "verbkey", m]    a verb followed by a colon, as "get:"           *)
(*   [k |-> "slash"]         "/" alone                                       *)
(*   [k |-> "word"]          any other text                                  *)
(* A key is alone on its line and a slash ends its line.                     *)

Verb(m) == [k |-> "verb", m |-> m]
Path(api, rest) == [k |-> "path", api |-> api, rest |-> rest]
Key(api, rest) == [k |-> "key", api |-> api, rest |-> rest]
VerbKey(m) == [k |-> "verbkey", m |-> m]
Slash == [k |-> "slash"]
Word == [k |-> "word"]

RECURSIVE Flatten(_)
Flatten(doc) == IF doc = << >> THEN << >> ELSE Head(doc) \o Flatten(Tail(doc))

\* the path a token stands for, as the text after its first "/"
TextAfterSlash(tok) ==
    (IF tok.api THEN "api/" ELSE "") \o tok.rest \o (IF tok.k = "key" THEN ":" ELSE "")

\* /\b(GET|POST|PUT|DELETE|PATCH)\s+\/([^\s`]+)/i: a verb, whitespace (a line
\* break too), "/" and at least one more character; "/" + p with a leading
\* "api/" removed
Explicit(doc) ==
    LET toks == Flatten(doc)
        hits == {i \in 1..(Len(toks) - 1) :
                    toks[i].k = "verb" /\ toks[i + 1].k \in {"path", "key"}}
    IN IF hits = {} THEN Null
       ELSE LET i == CHOOSE h \in hits : \A g \in hits : h <= g
            IN [method |-> ToUpperCase(toks[i].m),
                path |-> "/" \o TextAfterSlash([toks[i + 1] EXCEPT !.api = FALSE])]

\* /^[\t ]*\/([^:]+):\s*[\r\n]+[\t ]*(get|post|put|delete|patch):/im: a line
\* that is a key, then, blank lines apart, a line that starts with a verb
\* and a colon; "/" + p.trim()
NextLine(doc, i) ==
    LET later == {j \in (i + 1)..Len(doc) : doc[j] # << >>}
    IN IF later = {} THEN 0 ELSE CHOOSE j \in later : \A h \in later : j <= h

Yaml(doc) ==
    LET hits == {i \in 1..Len(doc) :
                    /\ doc[i] # << >>
                    /\ doc[i][1].k = "key"
                    /\ NextLine(doc, i) # 0
                    /\ doc[NextLine(doc, i)][1].k = "verbkey"}
    IN IF hits = {} THEN Null
       ELSE LET i == CHOOSE h \in hits : \A g \in hits : h <= g
            IN [method |-> ToUpperCase(doc[NextLine(doc, i)][1].m),
                path |-> "/" \o TextAfterSlash([doc[i][1] EXCEPT !.k = "path"])]

\* the loop over the lines: a line that is a verb, the next line starting
\* with "/"; a next line that continues after the "/" is matched by the
\* first pattern already, which leaves the line "/"
TwoLines(doc) ==
    LET hits == {i \in 1..(Len(doc) - 1) :
                    /\ Len(doc[i]) = 1 /\ doc[i][1].k = "verb"
                    /\ doc[i + 1] # << >> /\ doc[i + 1][1].k = "slash"}
    IN IF hits = {} THEN Null
       ELSE LET i == CHOOSE h \in hits : \A g \in hits : h <= g
            IN [method |-> ToUpperCase(doc[i][1].m), path |-> "/"]

\* parseMethodAndPath(doc)
ParseInvented(doc) == [method |-> "GET", path |-> "/"]
ParseMethodAndPath(doc) ==
    IF Explicit(doc) # Null THEN Explicit(doc)
    ELSE IF Yaml(doc) # Null THEN Yaml(doc)
    ELSE TwoLines(doc)

\* if (!p.startsWith("/")) p = "/" + p; p = p.replace(/^\/api\//i, "/"), for
\* a path given as text: with or without its leading "/", with or without
\* "api/" before rest
GivenPath(slash, api, rest) ==
    (IF slash THEN "/" ELSE "") \o (IF api THEN "api/" ELSE "") \o rest

NormalPath(path) ==
    CASE path \in {"/api/v2/domains", "api/v2/domains", "v2/domains"} -> "/v2/domains"
      [] path = "/api/v2/users" -> "/v2/users"
      [] path = "/api/v2/users:" -> "/v2/users:"
      [] OTHER -> path

UnableToDetermine == JStr("Unable to determine method/path for slug. Provide both explicitly.")
FailedToFetchDoc == JStr("Failed to fetch documentation for slug")

\* invokeSlug from the point where m and p are known: the apiFetch
SlugSend(p, t, m, path) ==
    /\ ApiFetchStart(p, [path |-> JStr(NormalPath(path)), method |-> JStr(ToUpperCase(m)),
                         query |-> Null, headers |-> NoHeaders, body |-> t.req.body])
    /\ task' = [task EXCEPT ![p] = [t EXCEPT !.pc = "slug.api"]]
    /\ UNCHANGED replies

\* invokeSlug({slug, method, path, body}) up to its first suspension: the
\* fetch of the documentation page, or apiFetch
InvokeSlug(p, args) ==
    LET t == [task[p] EXCEPT !.req = args, !.calls = @ - 1, !.loc = Null]
    IN /\ task[p].pc = "idle"
       /\ task[p].calls > 0
       /\ call[p].pc = "none"
       /\ IF ~Truthy(args.method) \/ ~Truthy(args.path)
          THEN /\ task' = [task EXCEPT ![p] = [t EXCEPT !.pc = "slug.doc"]]
               /\ UNCHANGED <<replies, requests, released, fetchVars>>
          ELSE SlugSend(p, t, args.method.s, args.path.s)
       /\ UNCHANGED <<now, cacheVars, cacheObs, limiter, envVars, CONTEXT, upstream, inbox>>

\* the documentation site answers with a page: parseMethodAndPath, then the
\* throw or apiFetch
DocAnswer(p, doc) ==
    LET t == [task[p] EXCEPT !.loc = [doc |-> doc]]
        guess == ParseMethodAndPath(doc)
    IN /\ task[p].pc = "slug.doc"
       /\ IF guess = Null
          THEN /\ replies' = Append(replies,
                     [id |-> p, req |-> t.req, ok |-> FALSE, loc |-> t.loc,
                      result |-> UnableToDetermine])
               /\ task' = [task EXCEPT ![p] = [t EXCEPT !.pc = "idle"]]
               /\ UNCHANGED <<requests, released, fetchVars>>
          ELSE SlugSend(p, t,
                        IF Truthy(t.req.method) THEN t.req.method.s ELSE guess.method,
                        IF Truthy(t.req.path) THEN t.req.path.s ELSE guess.path)
       /\ UNCHANGED <<now, cacheVars, cacheObs, limiter, envVars, CONTEXT, upstream, inbox>>

\* the documentation site answers with a status that is not ok: fetchDoc
\* throws
DocUnavailable(p) ==
    /\ task[p].pc = "slug.doc"
    /\ replies' = Append(replies,
          [id |-> p, req |-> task[p].req, ok |-> FALSE, loc |-> Null,
           result |-> FailedToFetchDoc])
    /\ task' = [task EXCEPT ![p].pc = "idle"]
    /\ UNCHANGED <<now, cacheVars, cacheObs, rateVars, envVars, CONTEXT, fetchVars,
                   upstream, inbox>>

\* return await apiFetch(...): the caller of invokeSlug takes the value or
\* the exception
SlugResume(p) ==
    /\ task[p].pc = "slug.api"
    /\ call[p].pc \in {"returned", "threw"}
    /\ replies' = Append(replies,
          [id |-> p, req |-> task[p].req, ok |-> call[p].pc = "returned",
           loc |-> task[p].loc, result |-> call[p].out])
    /\ task' = [task EXCEPT ![p].pc = "idle"]
    /\ call' = [call EXCEPT ![p] = IdleCall]
    /\ UNCHANGED <<now, cacheVars, cacheObs, rateVars, envVars, CONTEXT, obs, callLog, metrics,
                   upstream, inbox>>

(* The slug harness: invokeSlug called with or without method and path,     *)
(* the documentation site answering with any of a few pages.                 *)

SlugMaxCalls == 1

SlugDocs ==
    { <<<<Word, Word>>, << >>, <<Word>>>>,
      <<<<Word, Verb("post"), Path(TRUE, "v2/users"), Word>>>>,
      <<<<Word, Verb("GET")>>, <<Path(FALSE, "v2/domains")>>>>,
      <<<<Key(TRUE, "v2/users")>>, << >>, <<VerbKey("get"), Word>>>>,
      <<<<Key(FALSE, "v2/users")>>, <<Word>>, <<VerbKey("get")>>>>,
      <<<<Word>>, <<Verb("Delete")>>, <<Slash>>>>,
      <<<<Verb("post"), Word>>, <<Slash>>>>,
      <<<<Verb("GET"), Slash>>, <<VerbKey("post"), Path(FALSE, "v2/domains")>>>>,
      <<<<Verb("GET")>>, <<Word>>, <<Path(FALSE, "v2/domains"), Verb("post")>>>>,
      <<<<Verb("Delete"), Key(FALSE, "v2/users")>>, <<VerbKey("get")>>>>,
      <<<<Verb("GET")>>, <<Slash>>, <<Verb("post"), Path(FALSE, "v2/domains")>>>> }

SlugArgs ==
    {[slug |-> "some-slug", method |-> m, path |-> pth, body |-> Null]
        : m \in {Null, JStr(""), JStr("get"), JStr("POST")},
          pth \in {Null, JStr(GivenPath(TRUE, TRUE, "v2/domains")),
                   JStr(GivenPath(FALSE, TRUE, "v2/domains")),
                   JStr(GivenPath(FALSE, FALSE, "v2/domains")),
                   JStr(GivenPath(TRUE, FALSE, "v2/wallet/balance"))}}

InitSlug ==
    /\ now = 0
    /\ InitRateDefault /\ InitEnvDefault /\ InitCacheDefault /\ InitCacheObsNone
    /\ InitContextDefault /\ InitFetchIdle
    /\ task = [p \in Procs |-> [IdleTask EXCEPT !.calls = IF p = 1 THEN SlugMaxCalls ELSE 0]]
    /\ upstream = [balance |-> 100, faults |-> 0, populated |-> {}]
    /\ inbox = 0
    /\ replies = << >>

NextSlug ==
    \/ \E p \in Procs, args \in SlugArgs : InvokeSlug(p, args)
    \/ \E p \in Procs, doc \in SlugDocs : DocAnswer(p, doc)
    \/ \E p \in Procs : DocUnavailable(p)
    \/ \E p \in Procs : ApiFetchResume(p)
    \/ \E p \in Procs : UpstreamZapmail(p)
    \/ \E p \in Procs : SlugResume(p)

SpecSlug == InitSlug /\ [][NextSlug]_vars

-----------------------------------------------------------------------------
(* Claims about invokeSlug (SpecSlug).                                       *)

\* invokeSlug was called without method or without path
Unresolved(args) == ~Truthy(args.method) \/ ~Truthy(args.path)

\* the page matches none of the three patterns
MatchesNone(doc) == Explicit(doc) = Null /\ Yaml(doc) = Null /\ TwoLines(doc) = Null

\* the verbs and the paths a page names
VerbsIn(doc) ==
    {ToUpperCase(Flatten(doc)[i].m) :
        i \in {j \in DOMAIN Flatten(doc) : Flatten(doc)[j].k \in {"verb", "verbkey"}}}
PathsIn(doc) ==
    {NormalPath("/" \o TextAfterSlash(Flatten(doc)[i])) :
        i \in {j \in DOMAIN Flatten(doc) : Flatten(doc)[j].k \in {"path", "key"}}}
    \cup {NormalPath("/" \o TextAfterSlash([Flatten(doc)[i] EXCEPT !.k = "path"])) :
        i \in {j \in DOMAIN Flatten(doc) : Flatten(doc)[j].k = "key"}}
    \cup {"/" : i \in {j \in DOMAIN Flatten(doc) : Flatten(doc)[j].k = "slash"}}

\* C24: when invokeSlug is called without method or without path and the
\* page it fetches matches none of the three patterns, it fails with the
\* error "unable to determine method/path" and sends nothing upstream; the
\* method and the path of a request it does send are the caller's or are
\* named by the page.
C24_NoInventedMethodOrPath ==
    /\ [](\A r \in DOMAIN replies :
            (Unresolved(replies[r].req) /\ replies[r].loc # Null
               /\ MatchesNone(replies[r].loc.doc))
               => ~replies[r].ok /\ replies[r].result = UnableToDetermine)
    /\ [][\A p \in Procs :
            (task[p].pc # "idle" /\ task'[p].pc = "idle"
               /\ replies'[Len(replies')].result = UnableToDetermine)
               => /\ task[p].pc = "slug.doc"
                  /\ UNCHANGED <<requests, callLog, call, obs>>]_vars
    /\ [](\A p \in Procs :
            task[p].pc = "slug.api"
               => LET args == task[p].req
                      sent == call[p].args
                  IN /\ ~(Unresolved(args) /\ MatchesNone(task[p].loc.doc))
                     /\ IF Truthy(args.method)
                        THEN sent.method.s = ToUpperCase(args.method.s)
                        ELSE sent.method.s \in VerbsIn(task[p].loc.doc)
                     /\ IF Truthy(args.path)
                        THEN sent.path.s = NormalPath(args.path.s)
                        ELSE sent.path.s \in PathsIn(task[p].loc.doc))

\* a call that gave a path and no method ended with the error, the page
\* naming a verb and a path that no pattern puts together
C24_Witness ==
    \E r \in DOMAIN replies :
        /\ replies[r].result = UnableToDetermine
        /\ Truthy(replies[r].req.path)
        /\ VerbsIn(replies[r].loc.doc) # {}
        /\ PathsIn(replies[r].loc.doc) # {}
        /\ requests = << >>

\* the platform an export-to-platform intent names, "none" for other intents
PlatformOf(intent) ==
    CASE intent = "EXPORT_TO_REACHINBOX" -> "REACHINBOX"
      [] intent = "EXPORT_TO_INSTANTLY" -> "INSTANTLY"
      [] intent = "EXPORT_TO_SMARTLEAD" -> "SMARTLEAD"
      [] intent = "EXPORT_TO_REPLYIO" -> "REPLY_IO"
      [] OTHER -> "none"

\* the platform the instruction of a request asks to export to
AskedPlatform(req) ==
    IF Hits(req.instruction) = {} THEN "none"
    ELSE PlatformOf(INTENT_PATTERNS[First(Hits(req.instruction))].intent)

\* a credential is supplied when the request carries a non-empty string
Supplied(v) == v # Null /\ v # JStr("")

AccountLinks(steps) ==
    {k \in DOMAIN steps :
        steps[k].action = "api" /\ steps[k].path = JStr("/v2/exports/accounts/third-party")}

\* C26: the plan of an instruction whose intent is an export to Reachinbox,
\* Instantly, Smartlead or Reply.io has an account-link api step for that
\* platform; its email and its password are the values supplied with the
\* request, and the literal "REQUIRED" for each that was not supplied.
C26_ExportCredentialPlaceholders ==
    \A r \in DOMAIN replies :
        LET req == replies[r].req
            steps == replies[r].result.steps
        IN AskedPlatform(req) # "none"
              => /\ AccountLinks(steps) # {}
                 /\ \A k \in AccountLinks(steps) :
                       LET body == steps[k].body
                       IN /\ {"email", "password", "app"} \subseteq DOMAIN body
                          /\ body.app = AskedPlatform(req)
                          /\ body.email = IF Supplied(req.email) THEN req.email
                                          ELSE JStr("REQUIRED")
                          /\ body.password = IF Supplied(req.password) THEN req.password
                                             ELSE JStr("REQUIRED")

\* an export to Reply.io planned without credentials
C26_Witness ==
    \E r \in DOMAIN replies :
        /\ AskedPlatform(replies[r].req) = "REPLY_IO"
        /\ replies[r].req.email = Null /\ replies[r].req.password = Null
        /\ \E k \in AccountLinks(replies[r].result.steps) :
              replies[r].result.steps[k].body.email = JStr("REQUIRED")

-----------------------------------------------------------------------------
(* The parameter harness: simpleParseDomains, simpleParseYears and           *)
(* simpleParseMailboxCount applied to every instruction of up to             *)
(* ParseMaxWords words of a vocabulary, and to some longer sentences.        *)

ParseMaxWords == 3

ParseWords == {"buy", "and", "for", "example.com", "Example.com", "test.com", "0", "2",
               "3", "year", "years", "mailbox", "mailboxes"}

\* "buy example.com and test.com for 2 years"
BuySentence == <<"buy", "example.com", "and", "test.com", "for", "2", "years">>

ParseSentences ==
    { BuySentence,
      <<"buy", "test.com", "Example.com", "test.com", "example.com", "for", "3", "yrs">>,
      <<"create", "2", "inboxes", "for", "1", "yr", "and", "3", "years">>,
      <<"create", "mailboxes", "2", "on", "test.io">> }

RECURSIVE ParseSeqs(_)
ParseSeqs(n) ==
    IF n = 0 THEN {<< >>}
    ELSE ParseSeqs(n - 1)
         \cup {Append(q, w) : q \in {r \in ParseSeqs(n - 1) : Len(r) = n - 1},
                              w \in ParseWords}

ParseInstructions == ParseSeqs(ParseMaxWords) \cup ParseSentences

ParseCall(p, q) ==
    /\ inbox > 0
    /\ inbox' = inbox - 1
    /\ replies' = Append(replies,
          [id |-> p, req |-> q, ok |-> TRUE,
           result |-> [domains |-> SimpleParseDomains(q), years |-> SimpleParseYears(q),
                       count |-> SimpleParseMailboxCount(q)]])
    /\ UNCHANGED <<now, cacheVars, cacheObs, rateVars, envVars, CONTEXT, fetchVars, task,
                   upstream>>

InitParse ==
    /\ now = 0
    /\ InitRateDefault /\ InitEnvDefault /\ InitCacheDefault /\ InitCacheObsNone
    /\ InitContextDefault /\ InitFetchIdle
    /\ task = [p \in Procs |-> IdleTask]
    /\ upstream = [balance |-> 0, faults |-> 0, populated |-> {}]
    /\ inbox = 1
    /\ replies = << >>

NextParse == inbox > 0 /\ \E q \in ParseInstructions : ParseCall(1, q)

SpecParse == InitParse /\ [][NextParse]_vars

\* the places of q where a hostname stands, and where a number is followed
\* by one of the words units
HostPlaces(q) == {i \in DOMAIN q : HostOf(q[i]) # "none"}
CountPlaces(q, units) ==
    {i \in 1..(Len(q) - 1) : NumOf(q[i]) >= 0 /\ ToLowerCase(q[i + 1]) \in units}
FirstPlace(q, h) == CHOOSE i \in HostPlaces(q) :
                       HostOf(q[i]) = h /\ \A j \in HostPlaces(q) : HostOf(q[j]) = h => i <= j

\* C25: "buy example.com and test.com for 2 years" gives the domains
\* example.com, test.com and 2 years.  The domains extracted are the
\* hostnames of the instruction, each once, in the order of their first
\* occurrence; without "<N> year(s)" the years are 1, without
\* "<N> mailbox(es)" the mailbox count is 3 (yr, yrs and inbox, inboxes are
\* spellings of the two units).
C25_ParameterExtraction ==
    \A r \in DOMAIN replies :
        LET q == replies[r].req
            out == replies[r].result
        IN /\ q = BuySentence
                => out.domains = <<"example.com", "test.com">> /\ out.years = 2
           /\ Range(out.domains) = {HostOf(q[i]) : i \in HostPlaces(q)}
           /\ \A a, b \in DOMAIN out.domains :
                 a < b => FirstPlace(q, out.domains[a]) < FirstPlace(q, out.domains[b])
           /\ CountPlaces(q, {"year", "years", "yr", "yrs"}) = {} => out.years = 1
           /\ CountPlaces(q, {"mailbox", "mailboxes", "inbox", "inboxes"}) = {}
                 => out.count = 3

\* the values extracted from the sentence of the claim
C25_Witness ==
    \E r \in DOMAIN replies :
        /\ replies[r].req = BuySentence
        /\ Len(replies[r].result.domains) = 2
        /\ replies[r].result.count = 3

-----------------------------------------------------------------------------
(* The purchase scheduler (scripts/schedule_purchases.js): a script that     *)
(* starts the server once per attempt, writes one purchase_domains request   *)
(* to it and reads what it printed.  The run is followed from the first      *)
(* purchase on, the workspace being set.  A text is the set of the           *)
(* substrings the script searches that it contains.  The script's fields     *)
(* and its position are kept in task[1].                                     *)

INITIAL_DELAY == 10000
MAX_RETRIES == 5
BACKOFF_MULTIPLIER == 2
BATCH_SIZE == 1
SuccessPause == 5000

SchedMaxDomains == 2
DOMAINS_TO_PURCHASE ==
    <<"coldomni.com", "gtzpro.com", "saasoptima.com", "coldoptima.com", "gtmproapp.com">>
SchedDomains == SubSeq(DOMAINS_TO_PURCHASE, 1, SchedMaxDomains)

\* what a child process leaves: its exit code, its stdout and its stderr;
\* rateLimited notes that the upstream answered the purchase with 429
ChildOutcomes ==
    { \* sendResult: the purchase went through
      [code |-> 0, output |-> {}, errorOutput |-> {}, rateLimited |-> FALSE],
      \* sendError(id, -32000, "HTTP 429: Too Many Requests")
      [code |-> 0, output |-> {"\"error\"", "429", "Too Many Requests"},
       errorOutput |-> {}, rateLimited |-> TRUE],
      \* sendError with another message
      [code |-> 0, output |-> {"\"error\""}, errorOutput |-> {}, rateLimited |-> FALSE],
      \* the child ended with a failure code, its stderr naming the 429 or not
      [code |-> 1, output |-> {}, errorOutput |-> {"429"}, rateLimited |-> TRUE],
      [code |-> 1, output |-> {}, errorOutput |-> {}, rateLimited |-> FALSE] }

\* the error purchaseDomain catches, as the text of its message: the
\* rejection of executeCommand (`Command failed with code ...: ${errorOutput}`)
\* or 'API returned an error'
NoError == [threw |-> FALSE, message |-> {}]
PurchaseError(outcome) ==
    IF outcome.code # 0 THEN [threw |-> TRUE, message |-> outcome.errorOutput]
    ELSE IF "\"error\"" \in outcome.output THEN [threw |-> TRUE, message |-> {}]
    ELSE NoError

\* error.message.includes('429') || error.message.includes('Too Many Requests')
IsRateLimit(message) == "429" \in message \/ "Too Many Requests" \in message

RECURSIVE Pow(_, _)
Pow(b, e) == IF e = 0 THEN 1 ELSE b * Pow(b, e - 1)

\* this.currentDelay * Math.pow(BACKOFF_MULTIPLIER, retryCount)
BackoffDelay(currentDelay, retryCount) == currentDelay * Pow(BACKOFF_MULTIPLIER, retryCount)

NoAttempt == [domain |-> "", retryCount |-> 0, rateLimited |-> FALSE, verdict |-> "none",
              delay |-> 0]

\* new PurchaseScheduler(); `last` is not a field of the code, it notes the
\* last attempt and what purchaseDomain made of it
SchedulerNew ==
    [currentIndex |-> 0, successfulPurchases |-> << >>, failedPurchases |-> << >>,
     currentDelay |-> INITIAL_DELAY, retryCount |-> 0, wake |-> 0, last |-> NoAttempt]

\* purchaseDomain(domain, retryCount) from the end of executeCommand to the
\* next sleep: of the retry, or of processBatch after the verdict
PurchaseDomain(outcome) ==
    LET loc == task[1].loc
        domain == SchedDomains[loc.currentIndex + 1]
        error == PurchaseError(outcome)
        note(verdict, delay) ==
            [domain |-> domain, retryCount |-> loc.retryCount,
             rateLimited |-> outcome.rateLimited, verdict |-> verdict, delay |-> delay]
    IN
    /\ task[1].pc = "sched.attempt"
    /\ IF ~error.threw
       THEN task' = [task EXCEPT ![1].pc = "sched.pause",
                                 ![1].loc = [loc EXCEPT
                                    !.successfulPurchases = Append(@, domain),
                                    !.wake = now + SuccessPause,
                                    !.last = note("success", 0)]]
       ELSE IF IsRateLimit(error.message) /\ loc.retryCount < MAX_RETRIES
       THEN task' = [task EXCEPT ![1].pc = "sched.backoff",
                                 ![1].loc = [loc EXCEPT
                                    !.wake = now + BackoffDelay(loc.currentDelay, loc.retryCount),
                                    !.last = note("retry",
                                                  BackoffDelay(loc.currentDelay, loc.retryCount))]]
       ELSE task' = [task EXCEPT ![1].pc = "sched.pause",
                                 ![1].loc = [loc EXCEPT
                                    !.failedPurchases = Append(@, domain),
                                    !.wake = now + loc.currentDelay,
                                    !.last = note("failed", 0)]]
    /\ UNCHANGED <<now, rateVars, cacheVars, cacheObs, envVars, CONTEXT, fetchVars,
                   upstream, inbox, replies>>

\* the end of a sleep: the retry, the end of processBatch and the wait of
\* run before the next batch, or the next batch
SchedulerWake ==
    LET loc == task[1].loc
    IN
    /\ task[1].pc \in {"sched.backoff", "sched.pause", "sched.gap"}
    /\ now' = loc.wake
    /\ CASE task[1].pc = "sched.backoff" ->
             task' = [task EXCEPT ![1].pc = "sched.attempt",
                                  ![1].loc = [loc EXCEPT !.retryCount = @ + 1]]
         [] task[1].pc = "sched.pause" ->
             IF loc.currentIndex + BATCH_SIZE < Len(SchedDomains)
             THEN task' = [task EXCEPT ![1].pc = "sched.gap",
                                       ![1].loc = [loc EXCEPT
                                          !.currentIndex = @ + BATCH_SIZE,
                                          !.wake = loc.wake + loc.currentDelay]]
             ELSE task' = [task EXCEPT ![1].pc = "sched.done",
                                       ![1].loc = [loc EXCEPT
                                          !.currentIndex = @ + BATCH_SIZE]]
         [] task[1].pc = "sched.gap" ->
             task' = [task EXCEPT ![1].pc = "sched.attempt",
                                  ![1].loc = [loc EXCEPT !.retryCount = 0]]
    /\ UNCHANGED <<rateVars, cacheVars, cacheObs, envVars, CONTEXT, fetchVars,
                   upstream, inbox, replies>>

InitScheduler ==
    /\ now = 0
    /\ limiter = [maxRequests |-> DefaultMaxRequests, windowMs |-> DefaultWindowMs]
    /\ requests = << >>
    /\ released = requests
    /\ apiKey = JStr("key")
    /\ FEATURE_FLAGS = [llmPlanner |-> FALSE]
    /\ CONFIG = [maxRetries |-> DefaultMaxRetries, enableCaching |-> TRUE]
    /\ InitCacheDefault /\ InitCacheObsNone /\ InitFetchIdle
    /\ CONTEXT = [workspaceKey |-> JStr("w1"), serviceProvider |-> Null]
    /\ task = [p \in Procs |-> IF p = 1
                                THEN [IdleTask EXCEPT !.pc = "sched.attempt",
                                                      !.loc = SchedulerNew]
                                ELSE IdleTask]
    /\ upstream = [balance |-> 0, faults |-> 0, populated |-> {}]
    /\ inbox = 0
    /\ replies = << >>

NextScheduler ==
    \/ \E outcome \in ChildOutcomes : PurchaseDomain(outcome)
    \/ SchedulerWake

SpecScheduler == InitScheduler /\ [][NextScheduler]_vars

\* how often d occurs in list
Times(list, d) == Cardinality({k \in DOMAIN list : list[k] = d})

\* C40: an attempt that failed because the upstream answered 429 is retried
\* after currentDelay * BACKOFF_MULTIPLIER^retryCount while retryCount is
\* below MAX_RETRIES and puts the domain in failedPurchases only at
\* MAX_RETRIES; at the end every domain is once in exactly one of
\* successfulPurchases and failedPurchases.
C40_RateLimitedAttemptsRetried ==
    LET loc == task[1].loc
        e == loc.last
    IN /\ e.rateLimited
            => IF e.retryCount < MAX_RETRIES
               THEN /\ e.verdict = "retry"
                    /\ e.delay = loc.currentDelay * Pow(BACKOFF_MULTIPLIER, e.retryCount)
               ELSE e.verdict = "failed"
       /\ task[1].pc = "sched.done"
            => \A k \in DOMAIN SchedDomains :
                  Times(loc.successfulPurchases, SchedDomains[k])
                     + Times(loc.failedPurchases, SchedDomains[k]) = 1

====
